---- MODULE Spec2Model ----
(***************************************************************************)
(* State-machine model of the SOR emergency-department simulation kernel:  *)
(* the Director (bootstrap, provisioning of the second registration desk,  *)
(* monitor/reconcile, shutdown), the PatientGenerator, the Patient         *)
(* processes, the Registration desks, Triage, the Specialists and the      *)
(* Logger, communicating through System V message queues, the waiting-room *)
(* semaphore and the shared-state segment.                                 *)
(*                                                                         *)
(* A critical section taken under the state semaphore is one action,       *)
(* except for the Patient's and the Director's sections, which also exist  *)
(* as separate wait / section / post steps for the analysis of the lock.   *)
(* Wall-clock time is abstracted: a sleep is a step boundary, a timeout    *)
(* may fire whenever the awaited event has not happened yet.               *)
(***************************************************************************)
EXTENDS Integers, Sequences, FiniteSets, TLC

\* ---------------------------------------------------------------- bounds
MaxN == 3
MaxKIn == 2
MaxPatients == 2
MaxReg2Spawns == 2
QueueCap == 2
NumSpecialists == 2
MaxMinutes == 1
MaxSigints == 2

\* ------------------------------------------------------ program constants
PatientArrived == 1
PatientRegistered == 2
PatientToSpecialist == 4

Patients == 1..MaxPatients
SpecTypes == 0..(NumSpecialists - 1)
\* static_cast<int>(TriageColor): Red, Yellow, Green
Red == 0
Yellow == 1
Green == 2
Colors == {Red, Yellow, Green}
\* desk 1 is Registration1; desks 2.. are the successive Registration2 processes
Desks == 1..(1 + MaxReg2Spawns)
Reg2Desks == Desks \ {1}

\* EventMessage ev{}; seq is the history stamp of the enqueue order
NoEv == [mtype |-> 0, patientId |-> 0, isVip |-> 0, personsCount |-> 0,
         specialistIdx |-> 0, triageColor |-> 0, seq |-> 0]

VARIABLES
    config,        \* [N, K, reconcile, duration, qcap] fixed after start
    ipc,           \* set of IPC objects that exist in the kernel
    waitSem,       \* value of the waiting-room semaphore W
    shared,        \* shared-state segment (SharedState)
    regQueue,      \* RegChan
    triageQueue,   \* TriageChan
    specQueue,     \* SpecChan[t]
    pat,           \* Patient processes
    gen,           \* PatientGenerator
    desk,          \* Registration processes
    tri,           \* Triage
    spec,          \* Specialists
    logger,        \* Logger process and the records waiting in LogChan for it
    dir,           \* Director locals and position
    now,           \* wall-clock minutes elapsed since the start of the run
    lock,          \* state semaphore: its value and the actors inside a section
    sigint,        \* history: deliveries of SIGINT to workers, and the last receiver
    rested,        \* history: a leave sleep was completed since the last SIGUSR1
    hist,          \* history: the pipeline events of each patient, in order
    posts,         \* history: W posts performed on behalf of each patient
    sent           \* history: number of records ever enqueued per channel

vars == <<config, ipc, waitSem, shared, regQueue, triageQueue, specQueue,
          pat, gen, desk, tri, spec, logger, dir, now, lock, sigint, rested, hist, posts, sent>>

\* ------------------------------------------------------------- helpers

\* parseConfigFile: K <= 0 derives N/2; K < N/2 is rejected
DeriveK(n, kIn) == IF kIn <= 0 THEN n \div 2 ELSE kIn

ConfigAccepted(n, kIn) == n > 0 /\ DeriveK(n, kIn) >= n \div 2

\* a receive that takes the head of the queue whatever its type
MsgRcvHead(q, maxType) == IF Len(q) = 0 THEN 0 ELSE 1

\* msgrcv with a negative msgtyp: index of the first message of the lowest
\* type that is <= maxType, 0 when there is none
MsgRcvLowest(q, maxType) ==
    LET S == {i \in 1..Len(q) : q[i].mtype <= maxType}
    IN IF S = {} THEN 0
       ELSE CHOOSE i \in S : \A j \in S :
                \/ q[i].mtype < q[j].mtype
                \/ (q[i].mtype = q[j].mtype /\ i <= j)

\* msgsnd(IPC_NOWAIT): the record is queued, the queue is full (EAGAIN), or
\* the queue is gone (EIDRM/EINVAL)
SendResult(chan, q) ==
    IF chan \notin ipc THEN "gone"
    ELSE IF Len(q) < config.qcap THEN "sent" ELSE "again"

\* a send loop that gives up on a full queue
RetryOnNever(result) == FALSE

\* if (errno == EAGAIN) { usleep(1000); continue; }
RetryOn(result) == result = "again"

\* a receive that copies the record and leaves it in the queue
RemoveNone(q, i) == q

\* msgrcv takes the record it delivers out of the queue
RemoveAt(q, i) == SubSeq(q, 1, i - 1) \o SubSeq(q, i + 1, Len(q))

\* Patient::run: VIPs use the lower mtype
ArrivalType(isVip) == IF isVip = 1 THEN PatientArrived ELSE PatientArrived + 1

\* a forward that gives every record the same key
RegisteredTypeFlat(isVip) == PatientRegistered

\* Registration::run: forward to triage, VIP gets the lower mtype
RegisteredType(isVip) == IF isVip = 1 THEN PatientRegistered ELSE PatientRegistered + 1

\* a key that ignores the colour
colorPriorityFlat(c) == 3

\* Triage::run colorPriority: Red 1, Yellow 2, Green 3
colorPriority(c) == CASE c = Red -> 1 [] c = Yellow -> 2 [] OTHER -> 3

\* Triage::run: routedType
RoutedType(t, c) == PatientToSpecialist + t * 10 + colorPriority(c)

maxMsgTypeForSpec(t) == PatientToSpecialist + t * 10 + 3

\* releaseSlots: the counter is floored at zero
DecInside(cur, count) == IF cur >= count THEN cur - count ELSE 0

\* IPC objects of IpcIds
LogQ == <<"logQueue", 0>>
RegQ == <<"regQueue", 0>>
TriQ == <<"triageQueue", 0>>
SpecQ(t) == <<"specialistsQueue", t>>
Shm == <<"shmId", 0>>
SemW == <<"semWaitingRoom", 0>>
SemS == <<"semSharedState", 0>>

\* createSharedState: std::memset(state, 0, sizeof(SharedState))
ZeroState ==
    [currentInWaitingRoom |-> 0, queueRegistrationLen |-> 0,
     reg2Active |-> 0, totalPatients |-> 0,
     triageSentHome |-> 0, triageRed |-> 0, triageYellow |-> 0, triageGreen |-> 0,
     outcomeHome |-> 0, outcomeWard |-> 0, outcomeOther |-> 0]

\* the colour counter Triage increments for a colour
TriageCounter(c) ==
    CASE c = Red -> "triageRed" [] c = Yellow -> "triageYellow" [] OTHER -> "triageGreen"

\* the outcome counters a Specialist picks from by outcomeRand
Outcomes == {"outcomeHome", "outcomeWard", "outcomeOther"}

\* history: an event of the pipeline happens to patient p
Logged(p, event) == [hist EXCEPT ![p] = Append(@, event)]

\* the actors: those that take the state lock step by step, and the workers
\* a signal can be delivered to
DirectorActor == <<"director", 0>>
PatientActor(p) == <<"patient", p>>
RegistrationActor(d) == <<"registration", d>>
TriageActor == <<"triage", 0>>
SpecialistActor(t) == <<"specialist", t>>
GeneratorActor == <<"generator", 0>>
LoggerActor == <<"logger", 0>>

\* Semaphore::wait is blocked: semop(-1) on a value of zero
LockBlocked == SemS \in ipc /\ lock.val = 0

\* Semaphore::wait returned and the caller goes on into its section: with
\* the unit taken when semop succeeded, without it when semop failed with
\* EINTR (the callers do not look at the result)
LockEntered(actor, taken) ==
    [val |-> IF taken THEN lock.val - 1 ELSE lock.val,
     inside |-> lock.inside \cup {actor}]

\* Semaphore::post at the end of a section: semop(+1)
LockLeft(actor) ==
    [val |-> IF SemS \in ipc THEN lock.val + 1 ELSE lock.val,
     inside |-> lock.inside \ {actor}]

AllIpc == {LogQ, RegQ, TriQ, Shm, SemW, SemS} \cup {SpecQ(t) : t \in SpecTypes}

\* ---------------------------------------------------------------- Init

\* configurations parseConfigFile accepts, for the given K inputs and
\* reconcile switches
ConfigsFor(kIns, recs, durations) ==
    {c \in {[N |-> MaxN, K |-> DeriveK(MaxN, k), reconcile |-> r, duration |-> m,
             qcap |-> QueueCap] :
               k \in kIns, r \in recs, m \in durations} : ConfigAccepted(c.N, c.K)}

\* accepted configurations over several waiting-room sizes
ConfigsOfSize(ns, kIns) ==
    {c \in {[N |-> n, K |-> DeriveK(n, k), reconcile |-> FALSE, duration |-> 0,
             qcap |-> QueueCap] : n \in ns, k \in kIns} : ConfigAccepted(c.N, c.K)}

\* the same with duration = 0: the run is not limited in time
Configs(kIns, recs) == ConfigsFor(kIns, recs, {0})

\* configurations of a system whose limits leave each queue room for cap
\* records only (tuneQueue sets msg_qbytes "if permitted by system limits")
ConfigsCap(caps) ==
    {[c EXCEPT !.qcap = q] : c \in Configs({MaxPatients + 1}, {FALSE}), q \in caps}

\* state after construction of the Director, before Director::run
InitWith(configs) ==
    /\ config \in configs
    /\ ipc = {}
    /\ waitSem = 0
    /\ shared = ZeroState
    /\ regQueue = <<>>
    /\ triageQueue = <<>>
    /\ specQueue = [t \in SpecTypes |-> <<>>]
    /\ pat = [p \in Patients |-> [pc |-> "none", isVip |-> 0, personsCount |-> 0,
                                  held |-> 0, seen |-> 0]]
    /\ gen = [pc |-> "none", stop |-> FALSE, spawned |-> 0, sigusr2Seen |-> FALSE]
    /\ desk = [d \in Desks |-> [pc |-> "none", ev |-> NoEv, stop |-> FALSE, left |-> 0]]
    /\ tri = [pc |-> "none", ev |-> NoEv, stop |-> FALSE]
    /\ spec = [t \in SpecTypes |-> [pc |-> "none", ev |-> NoEv, stop |-> FALSE,
                                    paused |-> FALSE, outcome |-> "", seen |-> 0]]
    /\ logger = [pc |-> "none", inbox |-> <<>>, forced |-> FALSE, dropped |-> FALSE]
    /\ dir = [pc |-> "boot", stopRequested |-> FALSE, qlen |-> 0,
              reg2Pid |-> -1, reg2History |-> <<>>, join |-> 0,
              metricsContextSet |-> FALSE, ok |-> TRUE, ids |-> {},
              signalled |-> FALSE]
    /\ now = 0
    /\ lock = [val |-> 0, inside |-> {}]
    /\ sigint = [to |-> <<"none", 0>>, n |-> 0]
    /\ rested = [t \in SpecTypes |-> TRUE]
    /\ hist = [p \in Patients |-> <<>>]
    /\ posts = [p \in Patients |-> 0]
    /\ sent = [reg |-> 0, tri |-> 0, spec |-> 0]

Init == InitWith(Configs(0..MaxKIn, BOOLEAN))

\* ------------------------------------------------------------ Director

\* Director::run bootstrap: createQueues, createSemaphores, createSharedState,
\* logger, Registration1, Triage, PatientGenerator and the Specialists
DirBootstrap ==
    /\ dir.pc = "boot"
    /\ ipc' = AllIpc
    /\ waitSem' = config.N
    /\ shared' = ZeroState
    /\ logger' = [logger EXCEPT !.pc = "run"]
    /\ desk' = [desk EXCEPT ![1].pc = "boot"]
    /\ tri' = [tri EXCEPT !.pc = "rcv"]
    /\ gen' = [gen EXCEPT !.pc = "run"]
    /\ spec' = [t \in SpecTypes |-> [spec[t] EXCEPT !.pc = "rcv"]]
    /\ lock' = [val |-> 1, inside |-> {}]
    /\ dir' = [dir EXCEPT !.pc = "loop", !.metricsContextSet = TRUE, !.ids = AllIpc]
    /\ UNCHANGED <<rested, hist, sigint, now, config, regQueue, triageQueue, specQueue, pat, posts, sent>>

\* createQueues: the queues in the order of their creation
QueueOrder == <<LogQ, RegQ, TriQ>> \o [i \in 1..NumSpecialists |-> SpecQ(i - 1)]

\* bootstrap steps in program order: a create per queue, the two semaphores,
\* the segment, the logger, stateSemGuard.open, Registration1, Triage, the
\* generator and a fork per specialist
NumQueues == Len(QueueOrder)
StepSemW == NumQueues + 1
StepSemS == NumQueues + 2
StepShm == NumQueues + 3
StepLogger == NumQueues + 4
StepGuard == NumQueues + 5
StepReg1 == NumQueues + 6
StepTriage == NumQueues + 7
StepGenerator == NumQueues + 8
StepSpecialist(t) == NumQueues + 9 + t
BootSteps == 1..StepSpecialist(NumSpecialists - 1)

\* IPC objects that exist in the kernel when step s has failed; half tells
\* that a semaphore's semget succeeded and its SETVAL failed.
\* createSemaphores removes the waiting-room semaphore when the state
\* semaphore cannot be created.
CreatedBefore(s, half) ==
    {QueueOrder[i] : i \in {j \in 1..NumQueues : j < s}}
    \cup (IF s > StepSemS \/ (s = StepSemW /\ half) THEN {SemW} ELSE {})
    \cup (IF s > StepSemS \/ (s = StepSemS /\ half) THEN {SemS} ELSE {})
    \cup (IF s > StepShm THEN {Shm} ELSE {})

\* ids the Director has recorded in IpcIds when step s has failed: the queue
\* ids are stored at the end of createQueues, the semaphore ids as each
\* create succeeds (the first is reset when the second fails), shmId at the
\* end of createSharedState
RecordedBefore(s) ==
    (IF s > NumQueues THEN {QueueOrder[i] : i \in 1..NumQueues} ELSE {})
    \cup (IF s > StepSemS THEN {SemW, SemS} ELSE {})
    \cup (IF s > StepShm THEN {Shm} ELSE {})

\* Director::run bootstrap with a failing step: ok = false, the later steps
\* are skipped, and the run goes on to the main loop
DirBootstrapFail ==
    /\ dir.pc = "boot"
    /\ \E s \in BootSteps, half \in BOOLEAN :
         /\ half => s \in {StepSemW, StepSemS}
         /\ ipc' = CreatedBefore(s, half)
         /\ waitSem' = IF SemW \in CreatedBefore(s, half) THEN config.N ELSE 0
         /\ lock' = [val |-> IF SemS \in CreatedBefore(s, half) THEN 1 ELSE 0,
                     inside |-> {}]
         /\ logger' = [logger EXCEPT !.pc = IF s > StepLogger THEN "run" ELSE @]
         /\ desk' = [desk EXCEPT ![1].pc = IF s > StepReg1 THEN "boot" ELSE @]
         /\ tri' = [tri EXCEPT !.pc = IF s > StepTriage THEN "rcv" ELSE @]
         /\ gen' = [gen EXCEPT !.pc = IF s > StepGenerator THEN "run" ELSE @]
         /\ spec' = [t \in SpecTypes |->
                        [spec[t] EXCEPT !.pc = IF s > StepSpecialist(t) THEN "rcv" ELSE @]]
         /\ dir' = [dir EXCEPT !.pc = "loop", !.ok = FALSE,
                               !.metricsContextSet = FALSE,
                               !.ids = RecordedBefore(s)]
    /\ UNCHANGED <<rested, hist, sigint, now, config, shared, regQueue, triageQueue, specQueue, pat, posts, sent>>

\* handleSigint / handleSigusr2 of the Director; a Director blocked in
\* stateSemGuard.wait() has its semop fail with EINTR and goes on
DirSignal ==
    /\ dir.pc \notin {"boot", "done"}
    /\ ~dir.stopRequested
    /\ \E eintr \in {b \in BOOLEAN : b => (dir.pc = "tickwait" /\ LockBlocked)} :
         /\ dir' = [dir EXCEPT !.stopRequested = TRUE, !.signalled = TRUE,
                               !.pc = IF eintr THEN "ticksect" ELSE @]
         /\ lock' = IF eintr THEN LockEntered(DirectorActor, FALSE) ELSE lock
    /\ UNCHANGED <<rested, hist, sigint, now, config, ipc, waitSem, shared, regQueue, triageQueue, specQueue,
                   pat, gen, desk, tri, spec, logger, posts, sent>>

\* monotonicMs: a minute of wall-clock time passes
ClockTick ==
    /\ now < MaxMinutes
    /\ now' = now + 1
    /\ UNCHANGED <<rested, hist, sigint, config, ipc, waitSem, shared, regQueue, triageQueue, specQueue,
                   pat, gen, desk, tri, spec, logger, dir, lock, posts, sent>>

\* a time limit that is not switched off by duration = 0
DurationReachedAlways(duration, elapsed) == elapsed >= duration

\* simulationDurationMinutes > 0 && realMinutes >= simulationDurationMinutes
DurationReached(duration, elapsed) == duration > 0 /\ elapsed >= duration

\* main loop: the configured duration has elapsed, stopRequested and break
DirDurationStop ==
    /\ dir.pc = "loop"
    /\ ~dir.stopRequested
    /\ DurationReached(config.duration, now)
    /\ dir' = [dir EXCEPT !.stopRequested = TRUE, !.pc = "bcast"]
    /\ UNCHANGED <<rested, hist, sigint, now, lock, config, ipc, waitSem, shared, regQueue, triageQueue, specQueue,
                   pat, gen, desk, tri, spec, logger, posts, sent>>

\* a backlog taken from the kernel queue depth alone
RegLenDepthOnly(qlen, sharedLen) == qlen

\* regLen the Director uses on a tick: max(msg_qnum, queueRegistrationLen)
RegLen(qlen, sharedLen) == IF sharedLen > qlen THEN sharedLen ELSE qlen

\* main loop: one 100 ms chunk, msgctl(IPC_STAT) on the registration queue and
\* the locked read of queueRegistrationLen
DirTick ==
    /\ dir.pc = "loop"
    /\ ~dir.stopRequested
    /\ Shm \in dir.ids
    /\ dir' = [dir EXCEPT !.qlen = RegLen(Len(regQueue), shared.queueRegistrationLen),
                          !.pc = "prov"]
    /\ UNCHANGED <<rested, hist, sigint, now, lock, config, ipc, waitSem, shared, regQueue, triageQueue, specQueue,
                   pat, gen, desk, tri, spec, logger, posts, sent>>

\* main loop, first part of a tick: msgctl(IPC_STAT) on the registration queue
DirTickStat ==
    /\ dir.pc = "loop"
    /\ ~dir.stopRequested
    /\ Shm \in dir.ids
    /\ dir' = [dir EXCEPT !.qlen = Len(regQueue), !.pc = "tickwait"]
    /\ UNCHANGED <<rested, hist, sigint, now, lock, config, ipc, waitSem, shared, regQueue, triageQueue, specQueue,
                   pat, gen, desk, tri, spec, logger, posts, sent>>

\* stateSemGuard.wait() of the tick succeeds
DirTickLock ==
    /\ dir.pc = "tickwait"
    /\ SemS \in ipc
    /\ lock.val > 0
    /\ lock' = LockEntered(DirectorActor, TRUE)
    /\ dir' = [dir EXCEPT !.pc = "ticksect"]
    /\ UNCHANGED <<rested, hist, sigint, now, config, ipc, waitSem, shared, regQueue, triageQueue, specQueue,
                   pat, gen, desk, tri, spec, logger, posts, sent>>

\* the reads of the tick and stateSemGuard.post()
DirTickRead ==
    /\ dir.pc = "ticksect"
    /\ lock' = LockLeft(DirectorActor)
    /\ dir' = [dir EXCEPT !.qlen = RegLen(dir.qlen, shared.queueRegistrationLen),
                          !.pc = "prov"]
    /\ UNCHANGED <<rested, hist, sigint, now, config, ipc, waitSem, shared, regQueue, triageQueue, specQueue,
                   pat, gen, desk, tri, spec, logger, posts, sent>>

\* while (!stopRequested) falls through to the shutdown sequence
DirStop ==
    /\ dir.pc = "loop"
    /\ dir.stopRequested
    /\ dir' = [dir EXCEPT !.pc = "bcast"]
    /\ UNCHANGED <<rested, hist, sigint, now, lock, config, ipc, waitSem, shared, regQueue, triageQueue, specQueue,
                   pat, gen, desk, tri, spec, logger, posts, sent>>

\* an open test that looks at the backlog only
OpenCondBacklogOnly(reg2Flag, qlen) == qlen >= config.K

OpenCond(reg2Flag, qlen) == reg2Flag = 0 /\ qlen >= config.K

CloseCond(reg2Flag, qlen) == reg2Flag # 0 /\ qlen < (config.N \div 3)

\* pid of the next Registration2 process
NextReg2 == 2 + Len(dir.reg2History)

\* provisioning: open branch, forkExec succeeded
DirOpenReg2 ==
    /\ dir.pc = "prov"
    /\ OpenCond(shared.reg2Active, dir.qlen)
    /\ NextReg2 \in Desks
    /\ desk' = [desk EXCEPT ![NextReg2].pc = "boot"]
    /\ shared' = [shared EXCEPT !.reg2Active = 1]
    /\ dir' = [dir EXCEPT !.reg2Pid = NextReg2,
                          !.reg2History = Append(@, NextReg2),
                          !.qlen = 0, !.pc = "loop"]
    /\ UNCHANGED <<rested, hist, sigint, now, lock, config, ipc, waitSem, regQueue, triageQueue, specQueue,
                   pat, gen, tri, spec, logger, posts, sent>>

\* provisioning: open branch, fork failed (pid == -1): nothing is recorded
DirOpenForkFail ==
    /\ dir.pc = "prov"
    /\ OpenCond(shared.reg2Active, dir.qlen)
    /\ dir' = [dir EXCEPT !.qlen = 0, !.pc = "loop"]
    /\ UNCHANGED <<rested, hist, sigint, now, lock, config, ipc, waitSem, shared, regQueue, triageQueue, specQueue,
                   pat, gen, desk, tri, spec, logger, posts, sent>>

\* provisioning: close branch, kill(reg2Pid, SIGUSR2) and enter waitWithTimeout
DirCloseReg2 ==
    /\ dir.pc = "prov"
    /\ CloseCond(shared.reg2Active, dir.qlen)
    /\ IF dir.reg2Pid > 0
       THEN /\ desk' = [desk EXCEPT ![dir.reg2Pid].stop =
                            IF desk[dir.reg2Pid].pc \in {"exited", "reaped"} THEN @ ELSE TRUE]
            /\ dir' = [dir EXCEPT !.qlen = 0, !.pc = "closewait"]
            /\ UNCHANGED shared
       ELSE /\ shared' = [shared EXCEPT !.reg2Active = 0]
            /\ dir' = [dir EXCEPT !.qlen = 0, !.pc = "loop"]
            /\ UNCHANGED desk
    /\ UNCHANGED <<rested, hist, sigint, now, lock, config, ipc, waitSem, regQueue, triageQueue, specQueue,
                   pat, gen, tri, spec, logger, posts, sent>>

\* waitWithTimeout: the child is reaped when it has exited, or SIGKILLed and
\* reaped once the 5 s have passed
Reapable(pc) == pc # "none" /\ pc # "reaped"

\* waitWithTimeout returns at once for a pid <= 0 (the actor was never spawned)
Joined(pc) == IF pc = "none" THEN "none" ELSE "reaped"

\* provisioning: close branch after waitWithTimeout returned
DirCloseWait ==
    /\ dir.pc = "closewait"
    /\ Reapable(desk[dir.reg2Pid].pc)
    /\ desk' = [desk EXCEPT ![dir.reg2Pid].pc = "reaped"]
    /\ shared' = [shared EXCEPT !.reg2Active = 0]
    /\ dir' = [dir EXCEPT !.reg2Pid = -1, !.pc = "loop"]
    /\ UNCHANGED <<rested, hist, sigint, now, lock, config, ipc, waitSem, regQueue, triageQueue, specQueue,
                   pat, gen, tri, spec, logger, posts, sent>>

\* provisioning: neither threshold is met
DirProvNone ==
    /\ dir.pc = "prov"
    /\ ~OpenCond(shared.reg2Active, dir.qlen)
    /\ ~CloseCond(shared.reg2Active, dir.qlen)
    /\ dir' = [dir EXCEPT !.qlen = 0, !.pc = "loop"]
    /\ UNCHANGED <<rested, hist, sigint, now, lock, config, ipc, waitSem, shared, regQueue, triageQueue, specQueue,
                   pat, gen, desk, tri, spec, logger, posts, sent>>

ExpectedFree(inside) == config.N - inside

Missing(inside, wsemVal) == ExpectedFree(inside) - wsemVal

\* a monitor that resets W on every tick
ReconciledAlways(inside, wsemVal) == ExpectedFree(inside)

\* value the monitor leaves in the waiting-room semaphore
Reconciled(inside, wsemVal) ==
    IF config.reconcile /\ Missing(inside, wsemVal) > 0
    THEN ExpectedFree(inside) ELSE wsemVal

\* monitor (every 5 s): semctl(GETVAL), inside read under the lock, and the
\* optional reconcile semctl(SETVAL, expectedFree)
DirMonitor ==
    /\ dir.pc = "loop"
    /\ ~dir.stopRequested
    /\ Shm \in dir.ids
    /\ SemW \in ipc
    /\ waitSem' = Reconciled(shared.currentInWaitingRoom, waitSem)
    /\ UNCHANGED <<rested, hist, sigint, now, lock, config, ipc, shared, regQueue, triageQueue, specQueue,
                   pat, gen, desk, tri, spec, logger, dir, posts, sent>>

\* logEvent: the text of the record, as a sequence of its ';'-separated
\* fields. With the metrics context set the six metrics and the role label
\* come before the caller's text.
LogText(metricsSet, role, text) ==
    IF metricsSet
    THEN <<"wR=", "rQ=", "tQ=", "sQ=", "wSem=", "sSem=", role, text>>
    ELSE <<text>>

\* logEvent: msgsnd with IPC_NOWAIT; on EAGAIN the record is dropped
LogSent(lg, text) ==
    CASE SendResult(LogQ, lg.inbox) = "sent" -> [lg EXCEPT !.inbox = Append(@, text)]
      [] SendResult(LogQ, lg.inbox) = "again" -> [lg EXCEPT !.dropped = TRUE]
      [] OTHER -> lg

\* SIGUSR2 delivered to a worker: its handler raises the stop flag
Stopped(proc) == IF proc.pc \in {"none", "exited", "reaped"} THEN proc
                 ELSE [proc EXCEPT !.stop = TRUE]

\* coordinated shutdown: the two log records, then SIGUSR2 to reg1, reg2, triage, specialists, generator
DirBroadcast ==
    /\ dir.pc = "bcast"
    /\ desk' = [d \in Desks |->
                   IF d = 1 \/ d = dir.reg2Pid THEN Stopped(desk[d]) ELSE desk[d]]
    /\ tri' = Stopped(tri)
    /\ spec' = [t \in SpecTypes |-> Stopped(spec[t])]
    /\ gen' = IF Stopped(gen) = gen THEN gen ELSE [Stopped(gen) EXCEPT !.sigusr2Seen = TRUE]
    /\ logger' = LogSent(LogSent(logger,
                      LogText(dir.metricsContextSet, "director", "stop request")),
                      LogText(dir.metricsContextSet, "director", "initiating shutdown"))
    /\ dir' = [dir EXCEPT !.pc = "join", !.join = 1]
    /\ UNCHANGED <<rested, hist, sigint, now, lock, config, ipc, waitSem, shared, regQueue, triageQueue, specQueue,
                   pat, posts, sent>>

\* order of the waitWithTimeout calls of the shutdown
JoinCount == 3 + NumSpecialists + 1

\* waitWithTimeout(reg1Pid)
DirJoinReg1 ==
    /\ dir.pc = "join" /\ dir.join = 1
    /\ desk[1].pc # "reaped"
    /\ desk' = [desk EXCEPT ![1].pc = Joined(@)]
    /\ dir' = [dir EXCEPT !.join = 2]
    /\ UNCHANGED <<rested, hist, sigint, now, lock, config, ipc, waitSem, shared, regQueue, triageQueue, specQueue,
                   pat, gen, tri, spec, logger, posts, sent>>

\* waitWithTimeout(reg2Pid): returns at once when pid <= 0
DirJoinReg2 ==
    /\ dir.pc = "join" /\ dir.join = 2
    /\ IF dir.reg2Pid > 0
       THEN /\ Reapable(desk[dir.reg2Pid].pc)
            /\ desk' = [desk EXCEPT ![dir.reg2Pid].pc = "reaped"]
       ELSE UNCHANGED desk
    /\ dir' = [dir EXCEPT !.join = 3]
    /\ UNCHANGED <<rested, hist, sigint, now, lock, config, ipc, waitSem, shared, regQueue, triageQueue, specQueue,
                   pat, gen, tri, spec, logger, posts, sent>>

\* waitWithTimeout(triagePid)
DirJoinTriage ==
    /\ dir.pc = "join" /\ dir.join = 3
    /\ tri.pc # "reaped"
    /\ tri' = [tri EXCEPT !.pc = Joined(@)]
    /\ dir' = [dir EXCEPT !.join = 4]
    /\ UNCHANGED <<rested, hist, sigint, now, lock, config, ipc, waitSem, shared, regQueue, triageQueue, specQueue,
                   pat, gen, desk, spec, logger, posts, sent>>

\* waitWithTimeout(pid) for each specialist, in spawn order
DirJoinSpecialist ==
    /\ dir.pc = "join" /\ dir.join \in 4..(3 + NumSpecialists)
    /\ LET t == dir.join - 4 IN
         /\ spec[t].pc # "reaped"
         /\ spec' = [spec EXCEPT ![t].pc = Joined(@)]
    /\ dir' = [dir EXCEPT !.join = @ + 1]
    /\ UNCHANGED <<rested, hist, sigint, now, lock, config, ipc, waitSem, shared, regQueue, triageQueue, specQueue,
                   pat, gen, desk, tri, logger, posts, sent>>

\* waitWithTimeout(generatorPid), then the summary file
DirJoinGenerator ==
    /\ dir.pc = "join" /\ dir.join = JoinCount
    /\ gen.pc # "reaped"
    /\ gen' = [gen EXCEPT !.pc = Joined(@)]
    /\ dir' = [dir EXCEPT !.pc = "end", !.join = 0]
    /\ UNCHANGED <<rested, hist, sigint, now, lock, config, ipc, waitSem, shared, regQueue, triageQueue, specQueue,
                   pat, desk, tri, spec, logger, posts, sent>>

\* if (ok) logEvent(..., "END")
DirSendEnd ==
    /\ dir.pc = "end"
    /\ logger' = IF dir.ok
                 THEN LogSent(logger, LogText(dir.metricsContextSet, "director", "END"))
                 ELSE logger
    /\ dir' = [dir EXCEPT !.pc = "joinlog"]
    /\ UNCHANGED <<rested, hist, sigint, now, lock, config, ipc, waitSem, shared, regQueue, triageQueue, specQueue,
                   pat, gen, desk, tri, spec, posts, sent>>

\* waitWithTimeout(loggerPid): a Logger that has not exited is SIGKILLed after
\* the 5 s
DirJoinLogger ==
    /\ dir.pc = "joinlog"
    /\ logger.pc # "reaped"
    /\ logger' = [logger EXCEPT !.pc = Joined(@),
                                !.forced = (logger.pc \notin {"none", "exited"})]
    /\ dir' = [dir EXCEPT !.pc = "destroy"]
    /\ UNCHANGED <<rested, hist, sigint, now, lock, config, ipc, waitSem, shared, regQueue, triageQueue, specQueue,
                   pat, gen, desk, tri, spec, posts, sent>>

\* a clean-up that removes the queues and the segment, not the semaphores
destroyIpcKeepSemaphores ==
    /\ dir.pc = "destroy"
    /\ ipc' = ipc \cap {SemW, SemS}
    /\ dir' = [dir EXCEPT !.pc = "done"]
    /\ UNCHANGED <<rested, hist, sigint, now, lock, config, waitSem, shared, regQueue, triageQueue, specQueue,
                   pat, gen, desk, tri, spec, logger, posts, sent>>

\* destroyIpc: IPC_RMID on every queue, the segment and both semaphores whose
\* id is recorded in IpcIds
destroyIpc ==
    /\ dir.pc = "destroy"
    /\ ipc' = ipc \ dir.ids
    /\ dir' = [dir EXCEPT !.pc = "done"]
    /\ UNCHANGED <<rested, hist, sigint, now, lock, config, waitSem, shared, regQueue, triageQueue, specQueue,
                   pat, gen, desk, tri, spec, logger, posts, sent>>

\* -------------------------------------------------------------- Logger

\* std::strncmp(msg.text, "END", 3) == 0
BeginsWithEnd(text) == Len(text) > 0 /\ text[1] = "END"

\* runLogger: msgrcv of one record; a text that begins with END ends the
\* loop, any other record is written as a line
LoggerReceive ==
    /\ logger.pc = "run"
    /\ LogQ \in ipc
    /\ logger.inbox # <<>>
    /\ logger' = [logger EXCEPT !.inbox = Tail(@),
                                !.pc = IF BeginsWithEnd(Head(logger.inbox))
                                       THEN "exited" ELSE "run"]
    /\ UNCHANGED <<rested, hist, sigint, now, lock, config, ipc, waitSem, shared, regQueue, triageQueue, specQueue,
                   pat, gen, desk, tri, spec, dir, posts, sent>>

\* ---------------------------------------------------- PatientGenerator

Alive(pc) == pc \notin {"none", "exited", "reaped"}

\* PatientGenerator::run: draw a profile, fork/exec a Patient with id spawned+1
GenSpawn(guardians, vips) ==
    /\ gen.pc = "run"
    /\ ~gen.stop
    /\ gen.spawned < MaxPatients
    /\ \E hasGuardian \in guardians, vip \in vips :
         pat' = [pat EXCEPT ![gen.spawned + 1] =
                    [pc |-> "acq", isVip |-> vip,
                     personsCount |-> IF hasGuardian THEN 2 ELSE 1,
                     held |-> 0, seen |-> 0]]
    /\ gen' = [gen EXCEPT !.spawned = @ + 1]
    /\ UNCHANGED <<rested, hist, sigint, now, lock, config, ipc, waitSem, shared, regQueue, triageQueue, specQueue,
                   desk, tri, spec, logger, dir, posts, sent>>

\* a generator that counts a fork that failed
SpawnedAfterFailCounted(n) == n + 1

\* spawned after a failed fork: continue comes before spawned++
SpawnedAfterFail(n) == n

ForkFailedText == "PatientGenerator fork failed, backing off"

\* PatientGenerator::run: fork() == -1, the failure is logged and the loop
\* continues after the back-off; no child exists
GenForkFail ==
    /\ gen.pc = "run"
    /\ ~gen.stop
    /\ gen.spawned < MaxPatients
    /\ gen' = [gen EXCEPT !.spawned = SpawnedAfterFail(@)]
    /\ logger' = LogSent(logger, LogText(TRUE, "generator", ForkFailedText))
    /\ UNCHANGED <<rested, hist, sigint, now, lock, config, ipc, waitSem, shared, regQueue, triageQueue, specQueue,
                   pat, desk, tri, spec, dir, posts, sent>>

\* PatientGenerator::run: fork succeeded and execv fails in the child, which
\* ends with _exit(1); the parent has the pid and counts the child
GenExecFail(guardians, vips) ==
    /\ gen.pc = "run"
    /\ ~gen.stop
    /\ gen.spawned < MaxPatients
    /\ \E hasGuardian \in guardians, vip \in vips :
         pat' = [pat EXCEPT ![gen.spawned + 1] =
                    [pc |-> "exited", isVip |-> vip,
                     personsCount |-> IF hasGuardian THEN 2 ELSE 1,
                     held |-> 0, seen |-> 0]]
    /\ gen' = [gen EXCEPT !.spawned = @ + 1]
    /\ UNCHANGED <<rested, hist, sigint, now, lock, config, ipc, waitSem, shared, regQueue, triageQueue, specQueue,
                   desk, tri, spec, logger, dir, posts, sent>>

\* PatientGenerator::run: the duration stored in the shared state (the
\* Director's copy of the configuration) has elapsed
GenDurationStop ==
    /\ gen.pc = "run"
    /\ ~gen.stop
    /\ DurationReached(config.duration, now)
    /\ gen' = [gen EXCEPT !.stop = TRUE]
    /\ UNCHANGED <<rested, hist, sigint, now, lock, config, ipc, waitSem, shared, regQueue, triageQueue, specQueue,
                   pat, desk, tri, spec, logger, dir, posts, sent>>

\* PatientGenerator::run shutdown: kill(c, SIGUSR2) for every tracked child.
\* A Patient blocked in semop on an empty W gets EINTR and returns 1; one
\* blocked in stateSem.wait() gets EINTR and goes on into its section; one that
\* was not inside the system call only has its flag raised.
GenStop ==
    /\ gen.pc = "run"
    /\ gen.stop
    /\ \E intr \in SUBSET {p \in Patients : pat[p].pc = "acq" /\ waitSem = 0 /\ SemW \in ipc},
          eintr \in SUBSET {p \in Patients : pat[p].pc = "count" /\ LockBlocked} :
         /\ pat' = [p \in Patients |->
                      IF p \in intr THEN [pat[p] EXCEPT !.pc = "exited"]
                      ELSE IF p \in eintr THEN [pat[p] EXCEPT !.pc = "countsect"]
                      ELSE pat[p]]
         /\ lock' = [lock EXCEPT !.inside = @ \cup {PatientActor(p) : p \in eintr}]
    /\ gen' = [gen EXCEPT !.pc = "wait"]
    /\ UNCHANGED <<rested, hist, sigint, now, config, ipc, waitSem, shared, regQueue, triageQueue, specQueue,
                   desk, tri, spec, logger, dir, posts, sent>>

\* PatientGenerator::run shutdown: waitpid(c, nullptr, 0) for every child
GenExit ==
    /\ gen.pc = "wait"
    /\ \A p \in Patients : ~Alive(pat[p].pc)
    /\ gen' = [gen EXCEPT !.pc = "exited"]
    /\ UNCHANGED <<rested, hist, sigint, now, lock, config, ipc, waitSem, shared, regQueue, triageQueue, specQueue,
                   pat, desk, tri, spec, logger, dir, posts, sent>>

\* ---------------------------------------------------------- environment

\* the triage queue is removed while the run goes on (msgctl IPC_RMID from
\* outside, as the removeIfExists of a later launch on the same keys does)
TriageChannelDestroyed ==
    /\ TriQ \in ipc
    /\ ipc' = ipc \ {TriQ}
    /\ triageQueue' = <<>>
    /\ UNCHANGED <<rested, hist, sigint, now, lock, config, waitSem, shared, regQueue, specQueue,
                   pat, gen, desk, tri, spec, logger, dir, posts, sent>>

\* ------------------------------------------------------------- Patient

\* a semop that adds one to W
PostDone(w) == w + 1

\* value of W after a successful waitSem.wait(): semop with sem_op = -1
WaitDone(w) == w - 1

\* Patient::run: one waitSem.wait() of the acquisition loop
PatientAcquire(p) ==
    /\ pat[p].pc = "acq"
    /\ SemW \in ipc
    /\ waitSem > 0
    /\ waitSem' = WaitDone(waitSem)
    /\ pat' = [pat EXCEPT ![p].held = @ + 1,
                          ![p].pc = IF pat[p].held + 1 = pat[p].personsCount
                                    THEN "count" ELSE "acq"]
    /\ UNCHANGED <<rested, hist, sigint, now, lock, config, ipc, shared, regQueue, triageQueue, specQueue,
                   gen, desk, tri, spec, logger, dir, posts, sent>>

\* Patient::run: waitSem.wait() fails with EIDRM/EINVAL, return 1
PatientSemGone(p) ==
    /\ pat[p].pc = "acq"
    /\ SemW \notin ipc
    /\ pat' = [pat EXCEPT ![p].pc = "exited"]
    /\ UNCHANGED <<rested, hist, sigint, now, lock, config, ipc, waitSem, shared, regQueue, triageQueue, specQueue,
                   gen, desk, tri, spec, logger, dir, posts, sent>>

\* Patient::run: shared-state update after the seats were acquired
PatientArrive(p) ==
    /\ pat[p].pc = "count"
    /\ shared' = [shared EXCEPT
                    !.currentInWaitingRoom = @ + pat[p].personsCount,
                    !.queueRegistrationLen = @ + 1,
                    !.totalPatients = @ + 1]
    /\ pat' = [pat EXCEPT ![p].pc = "send"]
    /\ UNCHANGED <<rested, hist, sigint, now, lock, config, ipc, waitSem, regQueue, triageQueue, specQueue,
                   gen, desk, tri, spec, logger, dir, posts, sent>>

\* Patient::run: stateSem.wait() before the shared-state update succeeds
PatientLock(p) ==
    /\ pat[p].pc = "count"
    /\ SemS \in ipc
    /\ lock.val > 0
    /\ lock' = LockEntered(PatientActor(p), TRUE)
    /\ pat' = [pat EXCEPT ![p].pc = "countsect"]
    /\ UNCHANGED <<rested, hist, sigint, now, config, ipc, waitSem, shared, regQueue, triageQueue, specQueue,
                   gen, desk, tri, spec, logger, dir, posts, sent>>

\* Patient::run: the shared-state update and stateSem.post()
PatientCount(p) ==
    /\ pat[p].pc = "countsect"
    /\ shared' = [shared EXCEPT
                    !.currentInWaitingRoom = @ + pat[p].personsCount,
                    !.queueRegistrationLen = @ + 1,
                    !.totalPatients = @ + 1]
    /\ lock' = LockLeft(PatientActor(p))
    /\ pat' = [pat EXCEPT ![p].pc = "send"]
    /\ UNCHANGED <<rested, hist, sigint, now, config, ipc, waitSem, regQueue, triageQueue, specQueue,
                   gen, desk, tri, spec, logger, dir, posts, sent>>

\* Patient::run, the shared-state update statement by statement, first part:
\* currentInWaitingRoom += personsCount, and queueRegistrationLen is read
PatientCountRead(p) ==
    /\ pat[p].pc = "countsect"
    /\ shared' = [shared EXCEPT !.currentInWaitingRoom = @ + pat[p].personsCount]
    /\ pat' = [pat EXCEPT ![p].pc = "countwrite", ![p].seen = shared.queueRegistrationLen]
    /\ UNCHANGED <<rested, hist, sigint, now, lock, config, ipc, waitSem, regQueue, triageQueue, specQueue,
                   gen, desk, tri, spec, logger, dir, posts, sent>>

\* second part: the incremented queueRegistrationLen is stored,
\* totalPatients += 1 and stateSem.post()
PatientCountWrite(p) ==
    /\ pat[p].pc = "countwrite"
    /\ shared' = [shared EXCEPT !.queueRegistrationLen = pat[p].seen + 1,
                                !.totalPatients = @ + 1]
    /\ lock' = LockLeft(PatientActor(p))
    /\ pat' = [pat EXCEPT ![p].pc = "send", ![p].seen = 0]
    /\ UNCHANGED <<rested, hist, sigint, now, config, ipc, waitSem, regQueue, triageQueue, specQueue,
                   gen, desk, tri, spec, logger, dir, posts, sent>>

\* Patient::run: msgsnd(IPC_NOWAIT) to the registration queue, retried on EAGAIN,
\* given up when the queue is gone
PatientSend(p) ==
    /\ pat[p].pc = "send"
    /\ ~RetryOn(SendResult(RegQ, regQueue))
    /\ IF SendResult(RegQ, regQueue) = "sent"
       THEN /\ regQueue' = Append(regQueue,
                   [mtype |-> ArrivalType(pat[p].isVip), patientId |-> p,
                    isVip |-> pat[p].isVip, personsCount |-> pat[p].personsCount,
                    specialistIdx |-> 0, triageColor |-> 0,
                    seq |-> sent.reg + 1])
            /\ sent' = [sent EXCEPT !.reg = @ + 1]
       ELSE UNCHANGED <<regQueue, sent>>
    /\ pat' = [pat EXCEPT ![p].pc = "exited"]
    /\ hist' = IF SendResult(RegQ, regQueue) = "sent"
               THEN Logged(p, "arrival") ELSE hist
    /\ UNCHANGED <<rested, sigint, now, lock, config, ipc, waitSem, shared, triageQueue, specQueue,
                   gen, desk, tri, spec, logger, dir, posts>>

\* -------------------------------------------------------- Registration

\* After a record is done the loop condition while (!stopFlag) is evaluated
LoopTop(stop) == IF stop THEN "exited" ELSE "rcv"

\* Registration::run start-up: ftok, open of the queues, semaphores and segment
DeskBoot(d) ==
    /\ desk[d].pc = "boot"
    /\ desk' = [desk EXCEPT ![d].pc = LoopTop(desk[d].stop)]
    /\ UNCHANGED <<rested, hist, sigint, now, lock, config, ipc, waitSem, shared, regQueue, triageQueue, specQueue,
                   pat, gen, tri, spec, logger, dir, posts, sent>>

\* start-up failure: execv fails (_exit(1)) or an open fails (return 1)
DeskBootFail(d) ==
    /\ desk[d].pc = "boot"
    /\ desk' = [desk EXCEPT ![d].pc = "exited"]
    /\ UNCHANGED <<rested, hist, sigint, now, lock, config, ipc, waitSem, shared, regQueue, triageQueue, specQueue,
                   pat, gen, tri, spec, logger, dir, posts, sent>>

\* msgrcv(regQueue, -(PatientArrived + 1)) delivers a record
DeskReceive(d) ==
    /\ desk[d].pc = "rcv"
    /\ RegQ \in ipc
    /\ LET i == MsgRcvLowest(regQueue, PatientArrived + 1) IN
         /\ i # 0
         /\ desk' = [desk EXCEPT ![d].ev = regQueue[i], ![d].pc = "declen"]
         /\ regQueue' = RemoveAt(regQueue, i)
    /\ UNCHANGED <<rested, hist, sigint, now, lock, config, ipc, waitSem, shared, triageQueue, specQueue,
                   pat, gen, tri, spec, logger, dir, posts, sent>>

\* msgrcv fails: EINTR with the stop flag raised, or EIDRM/EINVAL
DeskInterrupted(d) ==
    /\ desk[d].pc = "rcv"
    /\ desk[d].stop \/ RegQ \notin ipc
    /\ desk' = [desk EXCEPT ![d].pc = "exited"]
    /\ UNCHANGED <<rested, hist, sigint, now, lock, config, ipc, waitSem, shared, regQueue, triageQueue, specQueue,
                   pat, gen, tri, spec, logger, dir, posts, sent>>

\* a desk that tests the stop flag right after the dequeue and leaves with
\* the record in hand
DeskDecLenStops(d) ==
    /\ desk[d].pc = "declen"
    /\ shared' = [shared EXCEPT !.queueRegistrationLen = IF @ > 0 THEN @ - 1 ELSE @]
    /\ desk' = [desk EXCEPT ![d].pc = IF desk[d].stop THEN "exited" ELSE "send"]
    /\ UNCHANGED <<rested, hist, sigint, now, lock, config, ipc, waitSem, regQueue, triageQueue, specQueue,
                   pat, gen, tri, spec, logger, dir, posts, sent>>

\* queueRegistrationLen -= 1 if positive
DeskDecLen(d) ==
    /\ desk[d].pc = "declen"
    /\ shared' = [shared EXCEPT !.queueRegistrationLen = IF @ > 0 THEN @ - 1 ELSE @]
    /\ desk' = [desk EXCEPT ![d].pc = "send"]
    /\ UNCHANGED <<rested, hist, sigint, now, lock, config, ipc, waitSem, regQueue, triageQueue, specQueue,
                   pat, gen, tri, spec, logger, dir, posts, sent>>

\* a desk that goes back to receiving when the forward failed
AfterSendSkipDrop(sentOk) == IF sentOk THEN "rel" ELSE "rcv"

\* if (sent) releaseSlots(...) else releaseSlots(...): both branches release
AfterSend(sentOk) == "rel"

\* service sleep, then msgsnd(IPC_NOWAIT) to the triage queue, retried on EAGAIN;
\* a destroyed queue ends the retry loop with sent = false
DeskSend(d) ==
    /\ desk[d].pc = "send"
    /\ ~RetryOn(SendResult(TriQ, triageQueue))
    /\ IF SendResult(TriQ, triageQueue) = "sent"
       THEN /\ triageQueue' = Append(triageQueue,
                   [desk[d].ev EXCEPT !.mtype = RegisteredType(desk[d].ev.isVip),
                                      !.seq = sent.tri + 1])
            /\ sent' = [sent EXCEPT !.tri = @ + 1]
       ELSE UNCHANGED <<triageQueue, sent>>
    /\ desk' = [desk EXCEPT ![d].pc = AfterSend(SendResult(TriQ, triageQueue) = "sent")]
    /\ hist' = IF SendResult(TriQ, triageQueue) = "sent"
               THEN Logged(desk[d].ev.patientId, "forward") ELSE hist
    /\ UNCHANGED <<rested, sigint, now, lock, config, ipc, waitSem, shared, regQueue, specQueue,
                   pat, gen, tri, spec, logger, dir, posts>>

\* a release that frees one seat per record, whatever its personsCount
ReleaseCountOne(ev) == IF ev.personsCount > 0 THEN 1 ELSE 0

\* releaseSlots(ev.personsCount, ...): seats freed for a forwarded or dropped record
ReleaseCount(ev) == ev.personsCount

\* releaseSlots, first half: the counter under the state lock
DeskRelease(d) ==
    /\ desk[d].pc = "rel"
    /\ shared' = [shared EXCEPT !.currentInWaitingRoom =
                      DecInside(@, ReleaseCount(desk[d].ev))]
    /\ desk' = [desk EXCEPT ![d].pc = "post", ![d].left = ReleaseCount(desk[d].ev)]
    /\ UNCHANGED <<rested, hist, sigint, now, lock, config, ipc, waitSem, regQueue, triageQueue, specQueue,
                   pat, gen, tri, spec, logger, dir, posts, sent>>

\* releaseSlots, second half: one waitSem.post() of the loop; after the last
\* one the heartbeat and the loop condition
DeskPost(d) ==
    /\ desk[d].pc = "post"
    /\ IF SemW \in ipc
       THEN /\ waitSem' = waitSem + 1
            /\ posts' = [posts EXCEPT ![desk[d].ev.patientId] = @ + 1]
       ELSE UNCHANGED <<waitSem, posts>>
    /\ desk' = [desk EXCEPT ![d].left = @ - 1,
                            ![d].pc = IF desk[d].left = 1
                                      THEN LoopTop(desk[d].stop) ELSE "post",
                            ![d].ev = IF desk[d].left = 1 THEN NoEv ELSE @]
    /\ UNCHANGED <<rested, hist, sigint, now, lock, config, ipc, shared, regQueue, triageQueue, specQueue,
                   pat, gen, tri, spec, logger, dir, sent>>

\* -------------------------------------------------------------- Triage

\* msgrcv(triageQueue, -(PatientRegistered + 1)) delivers a record
TriReceive ==
    /\ tri.pc = "rcv"
    /\ TriQ \in ipc
    /\ LET i == MsgRcvLowest(triageQueue, PatientRegistered + 1) IN
         /\ i # 0
         /\ tri' = [tri EXCEPT !.ev = triageQueue[i], !.pc = "decide"]
         /\ triageQueue' = RemoveAt(triageQueue, i)
    /\ UNCHANGED <<rested, hist, sigint, now, lock, config, ipc, waitSem, shared, regQueue, specQueue,
                   pat, gen, desk, spec, logger, dir, posts, sent>>

\* msgrcv fails: EINTR with the stop flag raised, or EIDRM/EINVAL
TriInterrupted ==
    /\ tri.pc = "rcv"
    /\ tri.stop \/ TriQ \notin ipc
    /\ tri' = [tri EXCEPT !.pc = "exited"]
    /\ UNCHANGED <<rested, hist, sigint, now, lock, config, ipc, waitSem, shared, regQueue, triageQueue, specQueue,
                   pat, gen, desk, spec, logger, dir, posts, sent>>

\* a Triage that frees the patient's seats when it sends the patient home
HomeReleaseAll(ev) == ev.personsCount

\* seats Triage frees when it sends a patient home: the branch counts
\* triageSentHome, logs and continues; the seats were the forwarding desk's to free
HomeRelease(ev) == 0

\* rHome < 5: the patient is sent home from triage
TriSendHome ==
    /\ tri.pc = "decide"
    /\ shared' = [shared EXCEPT !.triageSentHome = @ + 1,
                                !.currentInWaitingRoom = DecInside(@, HomeRelease(tri.ev))]
    /\ IF SemW \in ipc
       THEN /\ waitSem' = waitSem + HomeRelease(tri.ev)
            /\ posts' = [posts EXCEPT ![tri.ev.patientId] = @ + HomeRelease(tri.ev)]
       ELSE UNCHANGED <<waitSem, posts>>
    /\ tri' = [tri EXCEPT !.pc = LoopTop(tri.stop), !.ev = NoEv]
    /\ hist' = Logged(tri.ev.patientId, "home")
    /\ UNCHANGED <<rested, sigint, now, lock, config, ipc, regQueue, triageQueue, specQueue,
                   pat, gen, desk, spec, logger, dir, sent>>

\* pickColor, pickSpecialist and the routed mtype
TriRoute(colors, types) ==
    /\ tri.pc = "decide"
    /\ \E c \in colors, t \in types :
         /\ shared' = [shared EXCEPT ![TriageCounter(c)] = @ + 1]
         /\ tri' = [tri EXCEPT !.pc = "send",
                               !.ev = [@ EXCEPT !.mtype = RoutedType(t, c),
                                                !.specialistIdx = t,
                                                !.triageColor = c]]
    /\ hist' = Logged(tri.ev.patientId, "routed")
    /\ UNCHANGED <<rested, sigint, now, lock, config, ipc, waitSem, regQueue, triageQueue, specQueue,
                   pat, gen, desk, spec, logger, dir, posts, sent>>

\* a routing that puts every record on the queue of the next type
TargetQueueNext(ev) == (ev.specialistIdx + 1) % NumSpecialists

\* targetQueue = specQueues[static_cast<int>(spec)]
TargetQueue(ev) == ev.specialistIdx

\* msgsnd(IPC_NOWAIT) to the specialist queue, retried on EAGAIN
TriSend ==
    /\ tri.pc = "send"
    /\ LET t == TargetQueue(tri.ev) IN
       /\ ~RetryOn(SendResult(SpecQ(t), specQueue[t]))
       /\ IF SendResult(SpecQ(t), specQueue[t]) = "sent"
          THEN /\ specQueue' = [specQueue EXCEPT ![t] =
                                   Append(@, [tri.ev EXCEPT !.seq = sent.spec + 1])]
               /\ sent' = [sent EXCEPT !.spec = @ + 1]
          ELSE UNCHANGED <<specQueue, sent>>
    /\ tri' = [tri EXCEPT !.pc = LoopTop(tri.stop), !.ev = NoEv]
    /\ UNCHANGED <<rested, hist, sigint, now, lock, config, ipc, waitSem, shared, regQueue, triageQueue,
                   pat, gen, desk, spec, logger, dir, posts>>

\* ---------------------------------------------------------- Specialist

\* the channel a Specialist of type t is attached to: its own SpecChan[t]
SpecChanOf(t) == t

\* msgrcv(specQueue, -maxMsgTypeForSpec(type)) delivers a record
SpecReceive(t) ==
    /\ spec[t].pc = "rcv"
    /\ SpecQ(SpecChanOf(t)) \in ipc
    /\ LET q == specQueue[SpecChanOf(t)]
           i == MsgRcvLowest(q, maxMsgTypeForSpec(t)) IN
         /\ i # 0
         /\ spec' = [spec EXCEPT ![t].ev = q[i], ![t].pc = "exam"]
         /\ specQueue' = [specQueue EXCEPT ![SpecChanOf(t)] = RemoveAt(@, i)]
         /\ hist' = Logged(q[i].patientId, "received")
    /\ UNCHANGED <<rested, sigint, now, lock, config, ipc, waitSem, shared, regQueue, triageQueue,
                   pat, gen, desk, tri, logger, dir, posts, sent>>

\* a Specialist that frees the patient's seats after the exam
ExamReleaseAll(ev) == ev.personsCount

\* seats a Specialist frees when it has handled a patient: between the exam
\* and "Handled patient" it updates one outcome counter and nothing else
ExamRelease(ev) == 0

\* msgrcv fails: EINTR with the stop flag raised, or EIDRM/EINVAL
SpecInterrupted(t) ==
    /\ spec[t].pc = "rcv"
    /\ spec[t].stop \/ SpecQ(SpecChanOf(t)) \notin ipc
    /\ spec' = [spec EXCEPT ![t].pc = "exited"]
    /\ UNCHANGED <<rested, hist, sigint, now, lock, config, ipc, waitSem, shared, regQueue, triageQueue, specQueue,
                   pat, gen, desk, tri, logger, dir, posts, sent>>

\* exam sleep, outcome counter under the state lock, "Handled patient"
\* top of the Specialist's loop: while (!stopFlag), then if (pausedFlag)
SpecLoopTop(s) == IF s.stop THEN "exited" ELSE IF s.paused THEN "leave" ELSE "rcv"

SpecHandle(t, outcomes) ==
    /\ spec[t].pc = "exam"
    /\ \E o \in outcomes :
         shared' = [shared EXCEPT ![o] = @ + 1,
                                 !.currentInWaitingRoom = DecInside(@, ExamRelease(spec[t].ev))]
    /\ IF SemW \in ipc
       THEN /\ waitSem' = waitSem + ExamRelease(spec[t].ev)
            /\ posts' = [posts EXCEPT ![spec[t].ev.patientId] = @ + ExamRelease(spec[t].ev)]
       ELSE UNCHANGED <<waitSem, posts>>
    /\ spec' = [spec EXCEPT ![t].pc = SpecLoopTop(spec[t]), ![t].ev = NoEv]
    /\ hist' = Logged(spec[t].ev.patientId, "handled")
    /\ UNCHANGED <<rested, sigint, now, lock, config, ipc, regQueue, triageQueue, specQueue,
                   pat, gen, desk, tri, logger, dir, sent>>

\* the same handling step by step. The exam sleep and outcomeRand
SpecExam(t) ==
    /\ spec[t].pc = "exam"
    /\ spec' = [spec EXCEPT ![t].pc = "outwait"]
    /\ UNCHANGED <<rested, hist, sigint, now, lock, config, ipc, waitSem, shared, regQueue,
                   triageQueue, specQueue, pat, gen, desk, tri, logger, dir, posts, sent>>

\* stateSem.wait() before the outcome counter succeeds
SpecOutLock(t) ==
    /\ spec[t].pc = "outwait"
    /\ SemS \in ipc
    /\ lock.val > 0
    /\ lock' = LockEntered(SpecialistActor(t), TRUE)
    /\ spec' = [spec EXCEPT ![t].pc = "outread"]
    /\ UNCHANGED <<rested, hist, sigint, now, config, ipc, waitSem, shared, regQueue,
                   triageQueue, specQueue, pat, gen, desk, tri, logger, dir, posts, sent>>

\* statePtr->outcomeX += 1, first half: the counter picked by outcomeRand is read
SpecOutRead(t, outcomes) ==
    /\ spec[t].pc = "outread"
    /\ \E o \in outcomes :
         spec' = [spec EXCEPT ![t].pc = "outwrite", ![t].outcome = o, ![t].seen = shared[o]]
    /\ UNCHANGED <<rested, hist, sigint, now, lock, config, ipc, waitSem, shared, regQueue,
                   triageQueue, specQueue, pat, gen, desk, tri, logger, dir, posts, sent>>

\* statePtr->outcomeX += 1, second half: the incremented value is stored;
\* stateSem.post(), "Handled patient" and the top of the loop
SpecOutWrite(t) ==
    /\ spec[t].pc = "outwrite"
    /\ shared' = [shared EXCEPT ![spec[t].outcome] = spec[t].seen + 1,
                                !.currentInWaitingRoom = DecInside(@, ExamRelease(spec[t].ev))]
    /\ IF SemW \in ipc
       THEN /\ waitSem' = waitSem + ExamRelease(spec[t].ev)
            /\ posts' = [posts EXCEPT ![spec[t].ev.patientId] = @ + ExamRelease(spec[t].ev)]
       ELSE UNCHANGED <<waitSem, posts>>
    /\ lock' = LockLeft(SpecialistActor(t))
    /\ spec' = [spec EXCEPT ![t].pc = SpecLoopTop(spec[t]), ![t].ev = NoEv,
                            ![t].outcome = "", ![t].seen = 0]
    /\ hist' = Logged(spec[t].ev.patientId, "handled")
    /\ UNCHANGED <<rested, sigint, now, config, ipc, regQueue,
                   triageQueue, specQueue, pat, gen, desk, tri, logger, dir, sent>>

\* if (pausedFlag): the leave sleep
SpecTakeLeave(t) ==
    /\ spec[t].pc = "leave"
    /\ spec' = [spec EXCEPT ![t].pc = "leaveclear"]
    /\ rested' = [rested EXCEPT ![t] = TRUE]
    /\ UNCHANGED <<hist, sigint, now, lock, config, ipc, waitSem, shared, regQueue,
                   triageQueue, specQueue, pat, gen, desk, tri, logger, dir, posts, sent>>

\* pausedFlag.store(false), "temporary leave finished", then on to msgrcv
SpecLeaveClear(t) ==
    /\ spec[t].pc = "leaveclear"
    /\ spec' = [spec EXCEPT ![t].paused = FALSE, ![t].pc = "rcv"]
    /\ UNCHANGED <<rested, hist, sigint, now, lock, config, ipc, waitSem, shared, regQueue,
                   triageQueue, specQueue, pat, gen, desk, tri, logger, dir, posts, sent>>

\* Director::run: kill(target, SIGUSR1) to a random specialist, and
\* handleSigusr1 in the Specialist. A Specialist inside msgrcv gets EINTR and
\* goes back to the top of its loop; one blocked in stateSem.wait() gets EINTR
\* and goes on into its section; anywhere else only the flag is set.
DirSigusr1(t) ==
    /\ dir.pc = "loop"
    /\ ~dir.stopRequested
    /\ Alive(spec[t].pc)
    /\ \E eintr \in {b \in BOOLEAN :
                       b => \/ spec[t].pc = "rcv"
                            \/ spec[t].pc = "outwait" /\ LockBlocked} :
         /\ spec' = [spec EXCEPT
                       ![t].paused = TRUE,
                       ![t].pc = IF ~eintr THEN @
                                 ELSE IF @ = "outwait" THEN "outread"
                                 ELSE SpecLoopTop([spec[t] EXCEPT !.paused = TRUE])]
         /\ lock' = IF eintr /\ spec[t].pc = "outwait"
                    THEN LockEntered(SpecialistActor(t), FALSE) ELSE lock
    /\ rested' = [rested EXCEPT ![t] = FALSE]
    /\ UNCHANGED <<hist, sigint, now, config, ipc, waitSem, shared, regQueue,
                   triageQueue, specQueue, pat, gen, desk, tri, logger, dir, posts, sent>>

\* ------------------------------------------------------------- SIGINT

\* sigaction(SIGINT, SIG_IGN) at the top of run(): the signal is discarded,
\* no system call is interrupted and no handler runs
SigintIgnored(proc) == proc

\* no disposition for SIGINT is installed after execv (handlers of the parent
\* are reset by exec): the default action terminates the process
SigintDefault(proc) == [proc EXCEPT !.pc = "exited"]

\* the sources hold two revisions of Specialist::run: the later installs
\* SIG_IGN for SIGINT, the earlier installs the SIGUSR1 and SIGUSR2 handlers only
SpecialistRevisions == {"earlier", "later"}
SpecialistIgnoresSigint(rev) == rev = "later"

Delivered(actor) == [to |-> actor, n |-> sigint.n + 1]

SigintRegistration(d) ==
    /\ sigint.n < MaxSigints
    /\ Alive(desk[d].pc)
    /\ desk' = [desk EXCEPT ![d] = SigintIgnored(@)]
    /\ sigint' = Delivered(RegistrationActor(d))
    /\ UNCHANGED <<rested, hist, now, lock, config, ipc, waitSem, shared, regQueue, triageQueue, specQueue,
                   pat, gen, tri, spec, logger, dir, posts, sent>>

SigintTriage ==
    /\ sigint.n < MaxSigints
    /\ Alive(tri.pc)
    /\ tri' = SigintIgnored(tri)
    /\ sigint' = Delivered(TriageActor)
    /\ UNCHANGED <<rested, hist, now, lock, config, ipc, waitSem, shared, regQueue, triageQueue, specQueue,
                   pat, gen, desk, spec, logger, dir, posts, sent>>

SigintSpecialist(t) ==
    /\ sigint.n < MaxSigints
    /\ Alive(spec[t].pc)
    /\ \E rev \in SpecialistRevisions :
         spec' = [spec EXCEPT ![t] = IF SpecialistIgnoresSigint(rev)
                                        THEN SigintIgnored(@) ELSE SigintDefault(@)]
    /\ sigint' = Delivered(SpecialistActor(t))
    /\ UNCHANGED <<rested, hist, now, lock, config, ipc, waitSem, shared, regQueue, triageQueue, specQueue,
                   pat, gen, desk, tri, logger, dir, posts, sent>>

SigintGenerator ==
    /\ sigint.n < MaxSigints
    /\ Alive(gen.pc)
    /\ gen' = SigintIgnored(gen)
    /\ sigint' = Delivered(GeneratorActor)
    /\ UNCHANGED <<rested, hist, now, lock, config, ipc, waitSem, shared, regQueue, triageQueue, specQueue,
                   pat, desk, tri, spec, logger, dir, posts, sent>>

SigintPatient(p) ==
    /\ sigint.n < MaxSigints
    /\ Alive(pat[p].pc)
    /\ pat' = [pat EXCEPT ![p] = SigintIgnored(@)]
    /\ sigint' = Delivered(PatientActor(p))
    /\ UNCHANGED <<rested, hist, now, lock, config, ipc, waitSem, shared, regQueue, triageQueue, specQueue,
                   gen, desk, tri, spec, logger, dir, posts, sent>>

SigintLogger ==
    /\ sigint.n < MaxSigints
    /\ Alive(logger.pc)
    /\ logger' = SigintIgnored(logger)
    /\ sigint' = Delivered(LoggerActor)
    /\ UNCHANGED <<rested, hist, now, lock, config, ipc, waitSem, shared, regQueue, triageQueue, specQueue,
                   pat, gen, desk, tri, spec, dir, posts, sent>>

\* ------------------------------------------------------- specification

\* the whole program
Next ==
    \/ DirBootstrap \/ DirBootstrapFail \/ DirSignal \/ DirTick \/ DirStop
    \/ DirOpenReg2 \/ DirOpenForkFail \/ DirCloseReg2 \/ DirCloseWait \/ DirProvNone
    \/ DirMonitor \/ ClockTick \/ DirDurationStop \/ GenDurationStop
    \/ TriageChannelDestroyed
    \/ DirBroadcast \/ DirJoinReg1 \/ DirJoinReg2 \/ DirJoinTriage
    \/ DirJoinSpecialist \/ DirJoinGenerator \/ DirSendEnd \/ DirJoinLogger
    \/ destroyIpc \/ LoggerReceive
    \/ GenSpawn(BOOLEAN, {0, 1}) \/ GenStop \/ GenExit
    \/ \E p \in Patients :
         PatientAcquire(p) \/ PatientSemGone(p) \/ PatientArrive(p) \/ PatientSend(p)
    \/ DirTickStat \/ DirTickLock \/ DirTickRead
    \/ \E p \in Patients : PatientLock(p) \/ PatientCount(p)
    \/ \E d \in Desks :
         \/ DeskBoot(d) \/ DeskBootFail(d) \/ DeskReceive(d) \/ DeskInterrupted(d)
         \/ DeskDecLen(d) \/ DeskSend(d) \/ DeskRelease(d) \/ DeskPost(d)
    \/ TriReceive \/ TriInterrupted \/ TriSendHome \/ TriRoute(Colors, SpecTypes) \/ TriSend
    \/ \E t \in SpecTypes : SpecReceive(t) \/ SpecInterrupted(t) \/ SpecHandle(t, Outcomes)
    \/ \E t \in SpecTypes :
         \/ SpecExam(t) \/ SpecOutLock(t) \/ SpecOutRead(t, Outcomes) \/ SpecOutWrite(t)
         \/ SpecTakeLeave(t) \/ SpecLeaveClear(t) \/ DirSigusr1(t)
    \/ SigintTriage \/ SigintGenerator \/ SigintLogger
    \/ \E d \in Desks : SigintRegistration(d)
    \/ \E t \in SpecTypes : SigintSpecialist(t)
    \/ \E p \in Patients : SigintPatient(p)

Spec == Init /\ [][Next]_vars

\* Waiting-room accounting: K is out of reach of the registration backlog, so
\* the second desk is never opened; patients come alone or with a guardian;
\* the monitor runs with reconcile off and on; shutdown may be triggered.
InitSeats == InitWith(Configs({MaxPatients + 1}, BOOLEAN))

NextSeats ==
    \/ DirBootstrap \/ DirSignal \/ DirTick \/ DirStop \/ DirProvNone
    \/ DirMonitor
    \/ DirBroadcast \/ DirJoinReg1 \/ DirJoinReg2 \/ DirJoinTriage
    \/ DirJoinSpecialist \/ DirJoinGenerator \/ DirSendEnd \/ DirJoinLogger
    \/ destroyIpc
    \/ GenSpawn(BOOLEAN, {0}) \/ GenStop \/ GenExit
    \/ \E p \in Patients :
         PatientAcquire(p) \/ PatientSemGone(p) \/ PatientArrive(p) \/ PatientSend(p)
    \/ \E d \in {1} :
         \/ DeskBoot(d) \/ DeskReceive(d) \/ DeskInterrupted(d)
         \/ DeskDecLen(d) \/ DeskSend(d) \/ DeskRelease(d) \/ DeskPost(d)
    \/ TriReceive \/ TriInterrupted \/ TriSendHome \/ TriRoute({Green}, {0}) \/ TriSend
    \/ \E t \in SpecTypes : SpecReceive(t) \/ SpecInterrupted(t) \/ SpecHandle(t, {"outcomeHome"})

SpecSeats == InitSeats /\ [][NextSeats]_vars

\* Provisioning of the second desk and shutdown: K within reach of the
\* backlog, reconcile off, patients come alone and are sent home at Triage;
\* a desk may fail at start-up, the fork of Registration2 may fail, shutdown
\* may be triggered.
InitProv == InitWith(Configs(0..MaxKIn, {FALSE}))

NextProv ==
    \/ DirBootstrap \/ DirSignal \/ DirTick \/ DirStop
    \/ DirOpenReg2 \/ DirOpenForkFail \/ DirCloseReg2 \/ DirCloseWait \/ DirProvNone
    \/ DirBroadcast \/ DirJoinReg1 \/ DirJoinReg2 \/ DirJoinTriage
    \/ DirJoinSpecialist \/ DirJoinGenerator \/ DirSendEnd \/ DirJoinLogger
    \/ destroyIpc
    \/ GenSpawn({FALSE}, {0}) \/ GenStop \/ GenExit
    \/ \E p \in Patients :
         PatientAcquire(p) \/ PatientSemGone(p) \/ PatientArrive(p) \/ PatientSend(p)
    \/ \E d \in Desks :
         \/ DeskBoot(d) \/ DeskBootFail(d) \/ DeskReceive(d) \/ DeskInterrupted(d)
         \/ DeskDecLen(d) \/ DeskSend(d) \/ DeskRelease(d) \/ DeskPost(d)
    \/ TriReceive \/ TriInterrupted \/ TriSendHome
    \/ \E t \in SpecTypes : SpecInterrupted(t)

SpecProv == InitProv /\ [][NextProv]_vars

\* Priority service: VIP and Normal patients come alone, K is within reach
\* so that Registration1 and Registration2 dequeue concurrently; no failure
\* and no shutdown trigger occurs.
InitPrio == InitWith(Configs(0..MaxKIn, {FALSE}))

NextPrio ==
    \/ DirBootstrap \/ DirTick
    \/ DirOpenReg2 \/ DirCloseReg2 \/ DirCloseWait \/ DirProvNone
    \/ GenSpawn({FALSE}, {0, 1})
    \/ \E p \in Patients :
         PatientAcquire(p) \/ PatientArrive(p) \/ PatientSend(p)
    \/ \E d \in Desks :
         \/ DeskBoot(d) \/ DeskReceive(d) \/ DeskInterrupted(d)
         \/ DeskDecLen(d) \/ DeskSend(d) \/ DeskRelease(d) \/ DeskPost(d)
    \/ TriReceive \/ TriSendHome \/ TriRoute(Colors, {0}) \/ TriSend
    \/ \E t \in SpecTypes : SpecReceive(t) \/ SpecHandle(t, {"outcomeHome"})

SpecPrio == InitPrio /\ [][NextPrio]_vars

\* Routing: patients come alone through Registration1 only, Triage routes
\* with every colour to every specialist type; no failure and no shutdown
\* trigger occurs.
InitRoute == InitWith(Configs({MaxPatients + 1}, {FALSE}))

NextRoute ==
    \/ DirBootstrap
    \/ GenSpawn({FALSE}, {0})
    \/ \E p \in Patients :
         PatientAcquire(p) \/ PatientArrive(p) \/ PatientSend(p)
    \/ \E d \in {1} :
         \/ DeskBoot(d) \/ DeskReceive(d)
         \/ DeskDecLen(d) \/ DeskSend(d) \/ DeskRelease(d) \/ DeskPost(d)
    \/ TriReceive \/ TriSendHome \/ TriRoute(Colors, SpecTypes) \/ TriSend
    \/ \E t \in SpecTypes : SpecReceive(t) \/ SpecHandle(t, {"outcomeHome"})

SpecRoute == InitRoute /\ [][NextRoute]_vars

\* Drop on a destroyed channel: patients come alone or with a guardian
\* through Registration1; TriageChan may be destroyed under the running
\* actors; Triage sends every patient home; no shutdown trigger occurs.
InitDrop == InitWith(Configs({MaxPatients + 1}, {FALSE}))

NextDrop ==
    \/ DirBootstrap \/ TriageChannelDestroyed
    \/ GenSpawn(BOOLEAN, {0})
    \/ \E p \in Patients :
         PatientAcquire(p) \/ PatientArrive(p) \/ PatientSend(p)
    \/ \E d \in {1} :
         \/ DeskBoot(d) \/ DeskReceive(d)
         \/ DeskDecLen(d) \/ DeskSend(d) \/ DeskRelease(d) \/ DeskPost(d)
    \/ TriReceive \/ TriInterrupted \/ TriSendHome

SpecDrop == InitDrop /\ [][NextDrop]_vars

\* Saturation and logging: the system leaves each queue room for one record
\* only; patients come alone through Registration1 and every colour is
\* routed to the first specialist; the Logger reads LogChan; the Director may
\* be signalled and then shuts down.
InitLog == InitWith(ConfigsCap({1}))

NextLog ==
    \/ DirBootstrap \/ DirSignal \/ DirStop
    \/ DirBroadcast \/ DirJoinReg1 \/ DirJoinReg2 \/ DirJoinTriage
    \/ DirJoinSpecialist \/ DirJoinGenerator \/ DirSendEnd \/ DirJoinLogger
    \/ destroyIpc \/ LoggerReceive
    \/ GenSpawn({FALSE}, {0}) \/ GenStop \/ GenExit
    \/ \E p \in Patients :
         PatientAcquire(p) \/ PatientSemGone(p) \/ PatientArrive(p) \/ PatientSend(p)
    \/ \E d \in {1} :
         \/ DeskBoot(d) \/ DeskReceive(d) \/ DeskInterrupted(d)
         \/ DeskDecLen(d) \/ DeskSend(d) \/ DeskRelease(d) \/ DeskPost(d)
    \/ TriReceive \/ TriInterrupted \/ TriSendHome \/ TriRoute({Green}, {0}) \/ TriSend
    \/ \E t \in SpecTypes : SpecReceive(t) \/ SpecInterrupted(t) \/ SpecHandle(t, {"outcomeHome"})

SpecLog == InitLog /\ [][NextLog]_vars

\* Interrupt signal: SIGINT is delivered to the workers while patients come
\* alone through Registration1, Triage routes every colour to the first
\* specialist and the Director may be signalled and then shuts down.
InitSig == InitWith(Configs({0}, {FALSE}))

NextSig ==
    \/ DirBootstrap \/ DirSignal \/ DirStop
    \/ DirBroadcast \/ DirJoinReg1 \/ DirJoinReg2 \/ DirJoinTriage
    \/ DirJoinSpecialist \/ DirJoinGenerator \/ DirSendEnd \/ DirJoinLogger
    \/ destroyIpc
    \/ GenSpawn({FALSE}, {0}) \/ GenStop \/ GenExit
    \/ \E p \in Patients :
         PatientAcquire(p) \/ PatientSemGone(p) \/ PatientArrive(p) \/ PatientSend(p)
    \/ \E d \in {1} :
         \/ DeskBoot(d) \/ DeskReceive(d) \/ DeskInterrupted(d)
         \/ DeskDecLen(d) \/ DeskSend(d) \/ DeskRelease(d) \/ DeskPost(d)
    \/ TriReceive \/ TriInterrupted \/ TriSendHome \/ TriRoute({Green}, {0}) \/ TriSend
    \/ \E t \in SpecTypes : SpecReceive(t) \/ SpecInterrupted(t) \/ SpecHandle(t, {"outcomeHome"})
    \/ SigintTriage \/ SigintGenerator \/ SigintLogger
    \/ \E d \in {1} : SigintRegistration(d)
    \/ \E t \in SpecTypes : SigintSpecialist(t)
    \/ \E p \in Patients : SigintPatient(p)

SpecSig == InitSig /\ [][NextSig]_vars

\* Statistics: patients come alone through Registration1, Triage sends them
\* home or routes them (Green) to either specialist; the Specialists update
\* their outcome counters step by step under the state lock and the Director
\* raises temporary leaves. No shutdown.
InitStats == InitWith(Configs({MaxPatients + 1}, {FALSE}))

NextStats ==
    \/ DirBootstrap
    \/ GenSpawn({FALSE}, {0})
    \/ \E p \in Patients : PatientAcquire(p) \/ PatientArrive(p) \/ PatientSend(p)
    \/ \E d \in {1} :
         \/ DeskBoot(d) \/ DeskReceive(d)
         \/ DeskDecLen(d) \/ DeskSend(d) \/ DeskRelease(d) \/ DeskPost(d)
    \/ TriReceive \/ TriSendHome \/ TriRoute({Green}, SpecTypes) \/ TriSend
    \/ \E t \in SpecTypes :
         \/ SpecReceive(t) \/ SpecExam(t) \/ SpecOutLock(t)
         \/ SpecOutRead(t, Outcomes) \/ SpecOutWrite(t)
         \/ SpecTakeLeave(t) \/ SpecLeaveClear(t) \/ DirSigusr1(t)

SpecStats == InitStats /\ [][NextStats]_vars

\* Disposition: patients with a guardian come through Registration1
\* and are routed (Green) to either specialist; the Specialists update their
\* outcome counters step by step; the Director raises temporary leaves and,
\* on a signal, broadcasts the stop.
InitDisp == InitWith(Configs({MaxPatients + 1}, {FALSE}))

NextDisp ==
    \/ DirBootstrap \/ DirSignal \/ DirStop \/ DirBroadcast
    \/ GenSpawn({TRUE}, {0})
    \/ \E p \in Patients : PatientAcquire(p) \/ PatientArrive(p) \/ PatientSend(p)
    \/ \E d \in {1} :
         \/ DeskBoot(d) \/ DeskReceive(d)
         \/ DeskDecLen(d) \/ DeskSend(d) \/ DeskRelease(d) \/ DeskPost(d)
    \/ TriReceive \/ TriRoute({Green}, SpecTypes) \/ TriSend
    \/ \E t \in SpecTypes :
         \/ SpecReceive(t) \/ SpecInterrupted(t) \/ SpecExam(t) \/ SpecOutLock(t)
         \/ SpecOutRead(t, Outcomes) \/ SpecOutWrite(t)
         \/ SpecTakeLeave(t) \/ SpecLeaveClear(t) \/ DirSigusr1(t)

SpecDisp == InitDisp /\ [][NextDisp]_vars

\* Temporary leave under fair scheduling: the runs of SpecStats in which
\* every process that can take a step of its own eventually takes it (a
\* process blocked on the state lock gets it if it is free again and again).
\* The Director's stimulus is a random draw and is not forced.
FairLeave ==
    /\ WF_vars(GenSpawn({FALSE}, {0}))
    /\ \A p \in Patients :
         WF_vars(PatientAcquire(p)) /\ WF_vars(PatientArrive(p)) /\ WF_vars(PatientSend(p))
    /\ WF_vars(DeskBoot(1)) /\ WF_vars(DeskReceive(1)) /\ WF_vars(DeskDecLen(1))
    /\ WF_vars(DeskSend(1)) /\ WF_vars(DeskRelease(1)) /\ WF_vars(DeskPost(1))
    /\ WF_vars(TriReceive) /\ WF_vars(TriSendHome \/ TriRoute({Green}, SpecTypes))
    /\ WF_vars(TriSend)
    /\ \A t \in SpecTypes :
         /\ WF_vars(SpecReceive(t)) /\ WF_vars(SpecExam(t)) /\ SF_vars(SpecOutLock(t))
         /\ WF_vars(SpecOutRead(t, Outcomes)) /\ WF_vars(SpecOutWrite(t))
         /\ WF_vars(SpecTakeLeave(t)) /\ WF_vars(SpecLeaveClear(t))

SpecLeave == InitStats /\ [][NextStats]_vars /\ FairLeave

\* The PatientGenerator left to itself after a stop: patients with or without
\* guardian, Registration1, a Triage that sends everybody home; the Director
\* is signalled and broadcasts the stop but joins nobody, so no process is
\* force-terminated. Every process that can take a step eventually takes it;
\* the signal to the Director comes from outside and is not forced.
InitGen == InitWith(Configs({MaxPatients + 1}, {FALSE}))

NextGen ==
    \/ DirBootstrap \/ DirSignal \/ DirStop \/ DirBroadcast
    \/ GenSpawn(BOOLEAN, {0}) \/ GenStop \/ GenExit
    \/ \E p \in Patients : PatientAcquire(p) \/ PatientArrive(p) \/ PatientSend(p)
    \/ \E d \in {1} :
         \/ DeskBoot(d) \/ DeskReceive(d) \/ DeskInterrupted(d)
         \/ DeskDecLen(d) \/ DeskSend(d) \/ DeskRelease(d) \/ DeskPost(d)
    \/ TriReceive \/ TriInterrupted \/ TriSendHome

FairGen ==
    /\ WF_vars(DirStop) /\ WF_vars(DirBroadcast)
    /\ WF_vars(GenSpawn(BOOLEAN, {0})) /\ WF_vars(GenStop) /\ WF_vars(GenExit)
    /\ \A p \in Patients :
         WF_vars(PatientAcquire(p)) /\ WF_vars(PatientArrive(p)) /\ WF_vars(PatientSend(p))
    /\ WF_vars(DeskBoot(1)) /\ WF_vars(DeskReceive(1)) /\ WF_vars(DeskInterrupted(1))
    /\ WF_vars(DeskDecLen(1)) /\ WF_vars(DeskSend(1)) /\ WF_vars(DeskRelease(1))
    /\ WF_vars(DeskPost(1))
    /\ WF_vars(TriReceive) /\ WF_vars(TriInterrupted) /\ WF_vars(TriSendHome)

SpecGen == InitGen /\ [][NextGen]_vars /\ FairGen

\* Return of the Director: runs with a time limit, the clock advances; the
\* Director's tick takes the state lock step by step. Patients come alone
\* through Registration1 and Triage to Specialist 0, which updates its
\* counter step by step under the state lock and may be sent SIGINT. Every process that can take a step eventually
\* takes it, the state lock is granted if it is free again and again, and
\* the Director tests the duration at the top of every iteration; SIGINT
\* comes from outside and is not forced.
InitRet == InitWith(ConfigsFor({MaxPatients + 1}, {FALSE}, {MaxMinutes}))

NextRet ==
    \/ DirBootstrap \/ ClockTick \/ DirDurationStop
    \/ DirTickStat \/ DirTickLock \/ DirTickRead \/ DirProvNone
    \/ DirBroadcast \/ DirJoinReg1 \/ DirJoinReg2 \/ DirJoinTriage
    \/ DirJoinSpecialist \/ DirJoinGenerator \/ DirSendEnd \/ DirJoinLogger
    \/ destroyIpc
    \/ GenSpawn({FALSE}, {0})
    \/ \E p \in Patients : PatientAcquire(p) \/ PatientArrive(p) \/ PatientSend(p)
    \/ \E d \in {1} :
         \/ DeskBoot(d) \/ DeskReceive(d)
         \/ DeskDecLen(d) \/ DeskSend(d) \/ DeskRelease(d) \/ DeskPost(d)
    \/ TriReceive \/ TriRoute({Green}, {0}) \/ TriSend
    \/ \E t \in {0} :
         \/ SpecReceive(t) \/ SpecExam(t) \/ SpecOutLock(t)
         \/ SpecOutRead(t, {"outcomeHome"}) \/ SpecOutWrite(t)
         \/ SigintSpecialist(t)

FairRet ==
    /\ WF_vars(DirBootstrap) /\ WF_vars(ClockTick) /\ SF_vars(DirDurationStop)
    /\ WF_vars(DirTickStat) /\ SF_vars(DirTickLock) /\ WF_vars(DirTickRead)
    /\ WF_vars(DirProvNone) /\ WF_vars(DirBroadcast)
    /\ WF_vars(DirJoinReg1) /\ WF_vars(DirJoinReg2) /\ WF_vars(DirJoinTriage)
    /\ WF_vars(DirJoinSpecialist) /\ WF_vars(DirJoinGenerator)
    /\ WF_vars(DirSendEnd) /\ WF_vars(DirJoinLogger) /\ WF_vars(destroyIpc)
    /\ WF_vars(GenSpawn({FALSE}, {0}))
    /\ \A p \in Patients :
         WF_vars(PatientAcquire(p)) /\ WF_vars(PatientArrive(p)) /\ WF_vars(PatientSend(p))
    /\ WF_vars(DeskBoot(1)) /\ WF_vars(DeskReceive(1)) /\ WF_vars(DeskDecLen(1))
    /\ WF_vars(DeskSend(1)) /\ WF_vars(DeskRelease(1)) /\ WF_vars(DeskPost(1))
    /\ WF_vars(TriReceive) /\ WF_vars(TriRoute({Green}, {0})) /\ WF_vars(TriSend)
    /\ WF_vars(SpecReceive(0)) /\ WF_vars(SpecExam(0)) /\ SF_vars(SpecOutLock(0))
    /\ WF_vars(SpecOutRead(0, {"outcomeHome"})) /\ WF_vars(SpecOutWrite(0))

SpecRet == InitRet /\ [][NextRet]_vars /\ FairRet

\* Thresholds: every accepted configuration with N in 1..MaxN and K unset or
\* given; patients come alone, both desks may run, Triage sends everybody
\* home. No shutdown.
InitConf == InitWith(ConfigsOfSize(1..MaxN, 0..MaxKIn))

NextConf ==
    \/ DirBootstrap \/ DirTick
    \/ DirOpenReg2 \/ DirCloseReg2 \/ DirCloseWait \/ DirProvNone
    \/ GenSpawn({FALSE}, {0})
    \/ \E p \in Patients : PatientAcquire(p) \/ PatientArrive(p) \/ PatientSend(p)
    \/ \E d \in Desks :
         \/ DeskBoot(d) \/ DeskReceive(d) \/ DeskInterrupted(d)
         \/ DeskDecLen(d) \/ DeskSend(d) \/ DeskRelease(d) \/ DeskPost(d)
    \/ TriReceive \/ TriSendHome

SpecConf == InitConf /\ [][NextConf]_vars

\* Thresholds under fair scheduling: the runs of SpecConf in which every
\* process that can take a step eventually takes it; the Director's loop
\* ticks again and again.
FairConf ==
    /\ WF_vars(DirBootstrap) /\ WF_vars(DirTick)
    /\ WF_vars(DirOpenReg2) /\ WF_vars(DirCloseReg2) /\ WF_vars(DirCloseWait)
    /\ WF_vars(DirProvNone)
    /\ WF_vars(GenSpawn({FALSE}, {0}))
    /\ \A p \in Patients :
         WF_vars(PatientAcquire(p)) /\ WF_vars(PatientArrive(p)) /\ WF_vars(PatientSend(p))
    /\ \A d \in Desks :
         /\ WF_vars(DeskBoot(d)) /\ WF_vars(DeskReceive(d)) /\ WF_vars(DeskInterrupted(d))
         /\ WF_vars(DeskDecLen(d)) /\ WF_vars(DeskSend(d)) /\ WF_vars(DeskRelease(d))
         /\ WF_vars(DeskPost(d))
    /\ WF_vars(TriReceive) /\ WF_vars(TriSendHome)

SpecClose == InitConf /\ [][NextConf]_vars /\ FairConf

\* Duration: runs with duration = 0 and with a time limit; the clock
\* advances; patients come alone through Registration1 and are sent home at
\* Triage; the Director may be signalled.
InitTime == InitWith(ConfigsFor({MaxPatients + 1}, {FALSE}, 0..MaxMinutes))

NextTime ==
    \/ DirBootstrap \/ ClockTick \/ DirSignal \/ DirDurationStop
    \/ DirTick \/ DirStop \/ DirProvNone
    \/ DirBroadcast \/ DirJoinReg1 \/ DirJoinReg2 \/ DirJoinTriage
    \/ DirJoinSpecialist \/ DirJoinGenerator \/ DirSendEnd \/ DirJoinLogger
    \/ destroyIpc
    \/ GenSpawn({FALSE}, {0}) \/ GenDurationStop \/ GenStop \/ GenExit
    \/ \E p \in Patients :
         PatientAcquire(p) \/ PatientSemGone(p) \/ PatientArrive(p) \/ PatientSend(p)
    \/ \E d \in {1} :
         \/ DeskBoot(d) \/ DeskReceive(d) \/ DeskInterrupted(d)
         \/ DeskDecLen(d) \/ DeskSend(d) \/ DeskRelease(d) \/ DeskPost(d)
    \/ TriReceive \/ TriInterrupted \/ TriSendHome
    \/ \E t \in SpecTypes : SpecInterrupted(t)

SpecTime == InitTime /\ [][NextTime]_vars

\* Bootstrap: any step of the bootstrap may fail; no patient is generated;
\* the Director may be signalled and then shuts down.
InitBoot == InitWith(Configs({MaxPatients + 1}, {FALSE}))

NextBoot ==
    \/ DirBootstrap \/ DirBootstrapFail \/ DirSignal \/ DirTick \/ DirStop \/ DirProvNone
    \/ DirBroadcast \/ DirJoinReg1 \/ DirJoinReg2 \/ DirJoinTriage
    \/ DirJoinSpecialist \/ DirJoinGenerator \/ DirSendEnd \/ DirJoinLogger
    \/ destroyIpc
    \/ GenStop \/ GenExit
    \/ \E d \in {1} : DeskBoot(d) \/ DeskInterrupted(d)
    \/ TriInterrupted
    \/ \E t \in SpecTypes : SpecInterrupted(t)

SpecBoot == InitBoot /\ [][NextBoot]_vars

\* State lock: the sections of the Patients and of the Director's tick are
\* taken step by step; patients come alone, K is out of reach; the Director
\* may be signalled and then stops the generator, which stops the Patients.
InitLock == InitWith(Configs({MaxPatients + 1}, {FALSE}))

NextLock ==
    \/ DirBootstrap \/ DirSignal \/ DirTickStat \/ DirTickLock \/ DirTickRead
    \/ DirProvNone \/ DirStop \/ DirBroadcast
    \/ GenSpawn({FALSE}, {0}) \/ GenStop
    \/ \E p \in Patients :
         PatientAcquire(p) \/ PatientLock(p) \/ PatientCount(p) \/ PatientSend(p)

SpecLock == InitLock /\ [][NextLock]_vars

\* Patient ids: the generator's fork may fail and a child's execv may fail;
\* patients come alone or with a guardian through Registration1 and are sent
\* home at Triage. The log records stay in LogChan. No shutdown.
InitIds == InitWith(Configs({MaxPatients + 1}, {FALSE}))

NextIds ==
    \/ DirBootstrap
    \/ GenSpawn(BOOLEAN, {0}) \/ GenForkFail \/ GenExecFail(BOOLEAN, {0})
    \/ \E p \in Patients : PatientAcquire(p) \/ PatientArrive(p) \/ PatientSend(p)
    \/ \E d \in {1} :
         \/ DeskBoot(d) \/ DeskReceive(d)
         \/ DeskDecLen(d) \/ DeskSend(d) \/ DeskRelease(d) \/ DeskPost(d)
    \/ TriReceive \/ TriSendHome

SpecIds == InitIds /\ [][NextIds]_vars

\* Admission under fair scheduling: waiting rooms of 2..MaxN seats, patients
\* come alone or with a guardian through Registration1 and are sent home at
\* Triage; every process that can take a step eventually takes it. No
\* reconcile, no shutdown.
InitAdm == InitWith(ConfigsOfSize(2..MaxN, {MaxPatients + 1}))

NextAdm ==
    \/ DirBootstrap
    \/ GenSpawn(BOOLEAN, {0})
    \/ \E p \in Patients : PatientAcquire(p) \/ PatientArrive(p) \/ PatientSend(p)
    \/ \E d \in {1} :
         \/ DeskBoot(d) \/ DeskReceive(d)
         \/ DeskDecLen(d) \/ DeskSend(d) \/ DeskRelease(d) \/ DeskPost(d)
    \/ TriReceive \/ TriSendHome

FairAdm ==
    /\ WF_vars(DirBootstrap) /\ WF_vars(GenSpawn(BOOLEAN, {0}))
    /\ \A p \in Patients :
         WF_vars(PatientAcquire(p)) /\ WF_vars(PatientArrive(p)) /\ WF_vars(PatientSend(p))
    /\ WF_vars(DeskBoot(1)) /\ WF_vars(DeskReceive(1)) /\ WF_vars(DeskDecLen(1))
    /\ WF_vars(DeskSend(1)) /\ WF_vars(DeskRelease(1)) /\ WF_vars(DeskPost(1))
    /\ WF_vars(TriReceive) /\ WF_vars(TriSendHome)

SpecAdm == InitAdm /\ [][NextAdm]_vars /\ FairAdm

\* a section of Registration or Triage as one step of an actor whose
\* stateSem.wait() succeeded: the lock is free when the section starts and
\* free again when it ends
DeskDecLenLocked(d) == SemS \in ipc /\ lock.val > 0 /\ DeskDecLen(d)

DeskReleaseLocked(d) == SemS \in ipc /\ lock.val > 0 /\ DeskRelease(d)

TriSendHomeLocked == SemS \in ipc /\ lock.val > 0 /\ TriSendHome

\* Registration backlog: the Patients' section and the Director's tick are
\* taken statement by statement, the sections of Registration1 and Triage in
\* one step while the lock is free; patients come alone and are sent home at
\* Triage; the Director may be signalled and then stops the generator, which
\* stops the Patients.
InitLen == InitWith(Configs({MaxPatients + 1}, {FALSE}))

NextLen ==
    \/ DirBootstrap \/ DirSignal \/ DirTickStat \/ DirTickLock \/ DirTickRead
    \/ DirProvNone \/ DirStop \/ DirBroadcast
    \/ GenSpawn({FALSE}, {0}) \/ GenStop
    \/ \E p \in Patients :
         \/ PatientAcquire(p) \/ PatientLock(p)
         \/ PatientCountRead(p) \/ PatientCountWrite(p) \/ PatientSend(p)
    \/ \E d \in {1} :
         \/ DeskBoot(d) \/ DeskReceive(d) \/ DeskInterrupted(d)
         \/ DeskDecLenLocked(d) \/ DeskSend(d) \/ DeskReleaseLocked(d) \/ DeskPost(d)
    \/ TriReceive \/ TriInterrupted \/ TriSendHomeLocked

SpecLen == InitLen /\ [][NextLen]_vars

\* ------------------------------------------- waiting-room accounting

\* a patient has arrived once all of its personsCount acquisitions are done
Arrived(p) == pat[p].personsCount > 0 /\ pat[p].held = pat[p].personsCount

\* a Patient holds seats it has not counted yet, or a desk has decremented
\* the counter and not finished posting
InWindow ==
    \/ \E p \in Patients : pat[p].held > 0 /\ pat[p].pc \in {"acq", "count"}
    \/ \E d \in Desks : desk[d].pc = "post"

\* C1: in every reachable state 0 <= insideWaitingRoom <= N, with the
\* reconcile toggle off and on.
C1_InsideWithinCapacity ==
    /\ shared.currentInWaitingRoom >= 0
    /\ shared.currentInWaitingRoom <= config.N

\* C1 restricted to runs with the reconcile toggle off
C1_InsideWithinCapacityNoReconcile ==
    ~config.reconcile => C1_InsideWithinCapacity

\* C2: whenever no actor is between its W operation and its counter update,
\* value(W) + insideWaitingRoom = N.
C2_SteadyState ==
    (SemW \in ipc /\ ~InWindow
       /\ \A p \in Patients : pat[p].held \in {0, pat[p].personsCount}
       /\ \A d \in Desks : desk[d].left = 0)
    => waitSem + shared.currentInWaitingRoom = config.N

\* C2 restricted to runs with the reconcile toggle off
C2_SteadyStateNoReconcile == ~config.reconcile => C2_SteadyState

FinishesRelease(d) ==
    /\ desk[d].pc = "post"
    /\ desk[d].left = 1
    /\ desk'[d].pc \in {"rcv", "exited"}

C4_NoPartialHold ==
    \A p \in Patients :
        (pat[p].pc = "acq" /\ pat[p].personsCount = 2 /\ waitSem = 0)
            => pat[p].held # 1

\* ------------------------------------------------ shutdown, second desk

UnreapedReg2 == {d \in Reg2Desks : desk[d].pc \notin {"none", "reaped"}}

\* C6: at most one Reg2 is alive at any moment; a Reg2 is spawned only on a
\* step that starts with reg2Active = 0, and reg2Active goes back to 0 only
\* on a step after which every earlier Reg2 has been reaped.
C6_AtMostOneReg2 ==
    [][ /\ Cardinality(UnreapedReg2') <= 1
        /\ \A d \in Reg2Desks :
             (desk[d].pc = "none" /\ desk'[d].pc # "none") => shared.reg2Active = 0
        /\ (shared.reg2Active = 1 /\ shared'.reg2Active = 0) => UnreapedReg2' = {} ]_vars

\* C6 witness: a second Registration2 runs after the first one was closed
C6_Witness ==
    /\ Len(dir.reg2History) = 2
    /\ desk[2].pc = "reaped"
    /\ desk[3].pc = "rcv"

\* C7: in every state where reg2Active = 1 a Reg2 actor is alive.
C7_ActiveImpliesAlive ==
    shared.reg2Active = 1 => \E d \in Reg2Desks : Alive(desk[d].pc)

\* the Director's step is the decision of a provisioning tick
ProvStep == dir.pc = "prov" /\ dir'.pc # "prov"

\* open branch as the code takes it when the fork succeeds
Reg2Opened ==
    /\ shared'.reg2Active = 1
    /\ dir'.reg2History = Append(dir.reg2History, dir'.reg2Pid)
    /\ dir'.reg2Pid \in Reg2Desks
    /\ desk[dir'.reg2Pid].pc = "none"
    /\ desk' = [desk EXCEPT ![dir'.reg2Pid].pc = "boot"]

\* close branch: Reg2 is told to stop, and reg2Active is cleared when the
\* Director has reaped it
Reg2Closing ==
    /\ dir'.pc = "closewait"
    /\ desk'[dir.reg2Pid].stop \/ ~Alive(desk[dir.reg2Pid].pc)
    /\ dir'.reg2History = dir.reg2History

Reg2Untouched ==
    /\ shared'.reg2Active = shared.reg2Active
    /\ dir'.reg2History = dir.reg2History
    /\ desk' = desk

\* the backlog a tick works with is max(depth(RegChan), registrationQueueLen)
TickReadsMax ==
    (dir.pc = "loop" /\ dir'.pc = "prov") =>
        /\ dir'.qlen >= Len(regQueue)
        /\ dir'.qlen >= shared.queueRegistrationLen
        /\ dir'.qlen \in {Len(regQueue), shared.queueRegistrationLen}

\* the close of a tick ends with reg2Active = 0 and Reg2 reaped
CloseEnds ==
    (dir.pc = "closewait" /\ dir'.pc # "closewait") =>
        /\ shared'.reg2Active = 0
        /\ desk'[dir.reg2Pid].pc = "reaped"
        /\ dir'.reg2History = dir.reg2History

\* C8 (as stated): on each provisioning tick, if reg2Active = 0 and
\* regLen >= K a Reg2 is spawned, reg2Active becomes 1 and its id is appended
\* once; if reg2Active = 1 and regLen < N/3 Reg2 is stopped and reg2Active
\* becomes 0; in every other case nothing of these changes.
C8_TickAsStated ==
    [][ /\ TickReadsMax
        /\ CloseEnds
        /\ ProvStep =>
             IF shared.reg2Active = 0 /\ dir.qlen >= config.K THEN Reg2Opened
             ELSE IF shared.reg2Active = 1 /\ dir.qlen < config.N \div 3
                  THEN Reg2Closing
                  ELSE Reg2Untouched ]_vars

\* C8 (amended): as stated, except that in the open case the spawn may fail,
\* and then reg2Active, the history and the Reg2 actors stay as they were.
C8_TickWithForkFailure ==
    [][ /\ TickReadsMax
        /\ CloseEnds
        /\ ProvStep =>
             IF shared.reg2Active = 0 /\ dir.qlen >= config.K
             THEN Reg2Opened \/ Reg2Untouched
             ELSE IF shared.reg2Active = 1 /\ dir.qlen < config.N \div 3
                  THEN Reg2Closing
                  ELSE Reg2Untouched ]_vars

\* C8 witness: the second desk was opened, closed and opened again, and the
\* history holds each id once
C8_Witness ==
    /\ shared.reg2Active = 1
    /\ dir.reg2History = <<2, 3>>
    /\ dir.reg2Pid = 3

\* -------------------------------------------------- priority service

\* records of q that are VIP arrivals
VipIn(q) == {i \in 1..Len(q) : q[i].isVip = 1}

\* m is the record a priority receive must deliver from q: no VIP is passed
\* over by a Normal, and m is the oldest of its own priority
TakenInOrder(m, q) ==
    /\ m.isVip = 0 => VipIn(q) = {}
    /\ \A i \in 1..Len(q) : q[i].isVip = m.isVip => q[i].seq >= m.seq

\* C9: a Registration desk never dequeues a Normal arrival while a VIP
\* arrival is in RegChan, and arrivals of equal priority are dequeued in
\* enqueue order, whichever desk (Reg1 or a Reg2) does the dequeue.
C9_RegistrationVipFirst ==
    [][ \A d \in Desks :
          (desk[d].pc = "rcv" /\ desk'[d].pc = "declen")
              => TakenInOrder(desk'[d].ev, regQueue) ]_vars

\* C9 witness: while Registration2 is open a desk has dequeued a VIP ahead of
\* a Normal arrival that was enqueued earlier and is still waiting
C9_Witness ==
    /\ Alive(desk[2].pc)
    /\ \E d \in Desks :
         /\ desk[d].pc = "declen"
         /\ desk[d].ev.isVip = 1
         /\ \E i \in 1..Len(regQueue) :
              regQueue[i].isVip = 0 /\ regQueue[i].seq < desk[d].ev.seq

\* C10: Registration forwards a VIP with a strictly smaller key than a
\* Normal patient, and Triage never dequeues a Normal Registered record while
\* a VIP Registered record is in TriageChan.
C10_TriageVipFirst ==
    [][ /\ \A i, j \in 1..Len(triageQueue') :
             (triageQueue'[i].isVip = 1 /\ triageQueue'[j].isVip = 0)
                 => triageQueue'[i].mtype < triageQueue'[j].mtype
        /\ (tri.pc = "rcv" /\ tri'.pc = "decide")
             => (tri'.ev.isVip = 0 => VipIn(triageQueue) = {}) ]_vars

\* C10 witness: Triage has dequeued a VIP ahead of a Normal record that was
\* forwarded earlier and is still in TriageChan
C10_Witness ==
    /\ tri.pc = "decide"
    /\ tri.ev.isVip = 1
    /\ \E i \in 1..Len(triageQueue) :
         triageQueue[i].isVip = 0 /\ triageQueue[i].seq < tri.ev.seq

\* C11: a Specialist of type t never dequeues a record while a record of
\* type t with a more severe colour (Red before Yellow before Green) is in its
\* channel, and records of equal colour are dequeued in the order Triage
\* enqueued them.
C11_SpecialistColourOrder ==
    [][ \A t \in SpecTypes :
          (spec[t].pc = "rcv" /\ spec'[t].pc = "exam") =>
              \A i \in 1..Len(specQueue[t]) :
                  specQueue[t][i].specialistIdx = t =>
                      /\ specQueue[t][i].triageColor >= spec'[t].ev.triageColor
                      /\ (specQueue[t][i].triageColor = spec'[t].ev.triageColor
                            => specQueue[t][i].seq >= spec'[t].ev.seq) ]_vars

\* C11 witness: a Specialist has dequeued a Red record ahead of a Green record
\* that Triage enqueued earlier and that is still in the channel
C11_Witness ==
    \E t \in SpecTypes :
        /\ spec[t].pc = "exam"
        /\ spec[t].ev.triageColor = Red
        /\ \E i \in 1..Len(specQueue[t]) :
             /\ specQueue[t][i].triageColor = Green
             /\ specQueue[t][i].seq < spec[t].ev.seq

C15_FailedBootstrapCleansUp ==
    (dir.pc = "done" /\ ~dir.ok) => ipc = {}

\* C16: if a bootstrap step fails, Director::run does not run the
\* provisioning/monitor loop: it returns non-zero without waiting for an
\* external stop signal or for the configured duration, also when duration=0.
C16_NoLoopAfterFailedBootstrap ==
    ~dir.ok => (dir.pc \notin {"loop", "prov"} /\ ~dir.stopRequested)

\* ---------------------------------------------------------- pipeline order

\* the two complete courses of a patient through the pipeline
HomeCourse == <<"arrival", "forward", "home">>
RoutedCourse == <<"arrival", "forward", "routed", "received", "handled">>

IsPrefix(h, course) == Len(h) <= Len(course) /\ h = SubSeq(course, 1, Len(h))

\* C21: for each patient id the events happen in pipeline order and each at
\* most once: arrival, forward by a registration desk, triage decision, then
\* (if routed) reception and handling by a Specialist. No patient is triaged
\* before being registered, and with both desks running no Arrival is
\* forwarded twice.
C21_PipelineOrder ==
    \A p \in Patients : IsPrefix(hist[p], HomeCourse) \/ IsPrefix(hist[p], RoutedCourse)

\* C21 witness: both desks hold a record at the same time; the first desk is
\* still releasing a patient that has meanwhile been triaged, received and
\* handled, the second desk is about to forward the other patient
C21_Witness ==
    /\ desk[1].pc = "rel"
    /\ hist[desk[1].ev.patientId] = RoutedCourse
    /\ desk[2].pc = "send"
    /\ desk[2].ev.patientId # desk[1].ev.patientId
    /\ hist[desk[2].ev.patientId] = <<"arrival">>

\* ------------------------------------------------------------ thresholds

\* C23: for every accepted configuration the open threshold of the second
\* desk is at least its close threshold plus one: K >= N/3 + 1 (integer
\* division).
C23_OpenAboveClose ==
    config.K >= (config.N \div 3) + 1

\* ------------------------------------------------------------ statistics

TriageSum == shared.triageRed + shared.triageYellow + shared.triageGreen
OutcomeSum == shared.outcomeHome + shared.outcomeWard + shared.outcomeOther

\* a patient's record was dropped: the Patient counted itself and its send
\* failed, or its course stopped short of a decision
Dropped(p) ==
    \/ pat[p].pc = "exited" /\ pat[p].held = pat[p].personsCount /\ hist[p] = <<>>
    \/ hist[p] # <<>> /\ hist[p] # HomeCourse /\ hist[p] # RoutedCourse

\* every channel is empty, no actor holds a record or is on its way to
\* sending one, and no record was dropped
Quiescent ==
    /\ regQueue = <<>> /\ triageQueue = <<>>
    /\ \A t \in SpecTypes : specQueue[t] = <<>> /\ spec[t].ev = NoEv
    /\ \A d \in Desks : desk[d].ev = NoEv
    /\ tri.ev = NoEv
    /\ \A p \in Patients : pat[p].pc \notin {"count", "countsect", "send"} /\ ~Dropped(p)

\* C22: in every reachable state outcomeHome + outcomeWard + outcomeOther <=
\* triageRed + triageYellow + triageGreen, and triageRed + triageYellow +
\* triageGreen + triageSentHome <= totalPatients; once every channel is empty
\* and every actor is idle with no record dropped, outcomeHome + outcomeWard +
\* outcomeOther = totalPatients - triageSentHome.
C22_CountersBalance ==
    /\ OutcomeSum <= TriageSum
    /\ TriageSum + shared.triageSentHome <= shared.totalPatients
    /\ Quiescent => OutcomeSum = shared.totalPatients - shared.triageSentHome

\* -------------------------------------------------------------- SIGINT

\* pc and stop flag of a worker (the Logger has no stop flag)
PcOf(a) ==
    CASE a[1] = "registration" -> desk[a[2]].pc
      [] a[1] = "triage"       -> tri.pc
      [] a[1] = "specialist"   -> spec[a[2]].pc
      [] a[1] = "generator"    -> gen.pc
      [] a[1] = "patient"      -> pat[a[2]].pc
      [] OTHER                 -> logger.pc

StopOf(a) ==
    CASE a[1] = "registration" -> desk[a[2]].stop
      [] a[1] = "triage"       -> tri.stop
      [] a[1] = "specialist"   -> spec[a[2]].stop
      [] a[1] = "generator"    -> gen.stop
      [] OTHER                 -> FALSE

Workers ==
    {RegistrationActor(d) : d \in Desks} \cup {TriageActor, GeneratorActor, LoggerActor}
        \cup {SpecialistActor(t) : t \in SpecTypes} \cup {PatientActor(p) : p \in Patients}

\* C20: delivering the interrupt signal to Registration, Triage, a Specialist,
\* the PatientFactory, a Patient or the Logger leaves that actor running where
\* it was, with its stop flag unchanged; only the Director reacts to the
\* interrupt: its delivery raises the Director's stop request, which starts
\* the stop broadcast.
C20_SigintLeavesWorkersRunning ==
    [][ /\ \A a \in Workers :
             (sigint'.n # sigint.n /\ sigint'.to = a)
                => (PcOf(a)' = PcOf(a) /\ StopOf(a)' = StopOf(a))
        /\ (~dir.signalled /\ dir'.signalled) => dir'.stopRequested ]_vars

\* -------------------------------------------------------------- duration

\* the Director has left its main loop for the shutdown sequence
DirShuttingDown == dir.pc \in {"bcast", "join", "end", "joinlog", "destroy", "done"}

\* the generator has left its spawn loop
GenStopping == gen.stop \/ gen.pc \in {"wait", "exited", "reaped"}

\* C17: with simulationDurationMinutes = 0 neither the Director nor the
\* PatientFactory ever stops because of elapsed time: the Director starts its
\* shutdown only after it received the interrupt or the evacuation signal, and
\* the PatientFactory stops only after it received stop.
C17_NoTimeStopWithoutDuration ==
    config.duration = 0 =>
        /\ DirShuttingDown => dir.signalled
        /\ GenStopping => gen.sigusr2Seen

\* C17 witness: with duration = 0 the clock has advanced, and the Director
\* has shut down on a signal received after that
C17_Witness ==
    /\ config.duration = 0
    /\ now = MaxMinutes
    /\ dir.pc = "done"
    /\ dir.signalled
    /\ gen.sigusr2Seen

\* ------------------------------------------------------------ state lock

\* C14: at most one actor at a time is inside a section that reads and
\* writes the shared state, and the state lock's value stays in {0,1}, for
\* every interleaving, including when a stop or interrupt signal arrives while
\* an actor is blocked acquiring the lock.
C14_StateLockExclusive ==
    SemS \in ipc => (Cardinality(lock.inside) <= 1 /\ lock.val \in {0, 1})

\* ------------------------------------------------- release on forward/drop

Enqueued(q, q2, patientId) ==
    /\ Len(q2) = Len(q) + 1
    /\ q2[Len(q2)].patientId = patientId

\* a sender of Arrival, Registered or ToSpecialist records leaves its send
\* loop only when its record has been enqueued or the channel is gone (a
\* desk or Triage may also be terminated by the Director while it retries)
SendersRetry ==
    /\ \A p \in Patients :
         (pat[p].pc = "send" /\ pat'[p].pc # "send")
             => (RegQ \notin ipc \/ Enqueued(regQueue, regQueue', p))
    /\ \A d \in Desks :
         (desk[d].pc = "send" /\ desk'[d].pc \notin {"send", "reaped"})
             => (TriQ \notin ipc
                   \/ Enqueued(triageQueue, triageQueue', desk[d].ev.patientId))
    /\ (tri.pc = "send" /\ tri'.pc \notin {"send", "reaped"})
             => (SpecQ(tri.ev.specialistIdx) \notin ipc
                   \/ Enqueued(specQueue[tri.ev.specialistIdx],
                               specQueue'[tri.ev.specialistIdx], tri.ev.patientId))

\* C19 (as stated): when a send finds its channel saturated the sender
\* retries until the record is enqueued or the channel is destroyed: no
\* Arrival, Registered, ToSpecialist or log record is dropped because of
\* saturation.
C19_NoRecordDropped ==
    [][ SendersRetry /\ ~logger'.dropped ]_vars

\* C19 (amended): no Arrival, Registered or ToSpecialist record is dropped
\* because of saturation; a log record is dropped, and only then, when its
\* send finds LogChan saturated.
C19_DataRetriedLogDropped ==
    [][ /\ SendersRetry
        /\ (~logger.dropped /\ logger'.dropped)
              => (LogQ \in ipc /\ Len(logger'.inbox) >= config.qcap) ]_vars

\* C19 witness: a Patient is retrying its Arrival on a saturated RegChan
\* after a log record of the Director was dropped on a saturated LogChan
C19_Witness ==
    /\ logger.dropped
    /\ \E p \in Patients :
         pat[p].pc = "send" /\ SendResult(RegQ, regQueue) = "again"

\* ---------------------------------------------------------------- Logger

\* C13: after the Director emits its sentinel with logEvent at the end of
\* shutdown, the Logger receives a record whose text begins with END and
\* terminates by itself, without the Director's 5 s force-termination.
C13_LoggerEndsOnSentinel ==
    dir.pc = "done" => (logger.pc = "reaped" /\ ~logger.forced)

\* ---------------------------------------------------------------- deciders

\* Triage sends patient p home in this step
SentHomeStep(p) == hist'[p] = Append(hist[p], "home")

\* what a send-home leaves alone: the colour counters and the specialist channels
HomeFrame ==
    /\ TriageSum' = TriageSum
    /\ specQueue' = specQueue
    /\ sent'.spec = sent.spec

HandledStep(p) == hist'[p] = Append(hist[p], "handled")

\* the Specialist that holds patient p's record
HandlerOf(p) == CHOOSE t \in SpecTypes : spec[t].ev # NoEv /\ spec[t].ev.patientId = p

PatientStep == \E p \in Patients : pat[p].pc # "none" /\ pat'[p] # pat[p]

\* C26: a Patient actor never posts W and never decrements insideWaitingRoom
\* on any path (normal hand-off, permanent send failure, or being stopped
\* while blocked); the only operations it performs on W are acquisitions.
C26_PatientOnlyAcquires ==
    [][ PatientStep =>
          /\ waitSem' \in {waitSem, waitSem - 1}
          /\ posts' = posts
          /\ shared'.currentInWaitingRoom >= shared.currentInWaitingRoom ]_vars

\* C26 witness: one Patient handed its record off, another one ended holding
\* seats it never gave back (stopped while blocked on W, or its send failed
\* for good), and no post was made for it
C26_Witness ==
    \E p, q \in Patients :
        /\ p # q
        /\ hist[p] # <<>>
        /\ pat[q].pc = "exited"
        /\ hist[q] = <<>>
        /\ pat[q].held >= 1
        /\ posts[q] = 0

\* a step that changes value(W) after start-up and is neither a Patient's
\* acquisition nor a release on behalf of a patient: the Director's
DirectorChangesW ==
    /\ dir.pc # "boot"
    /\ SemW \in ipc
    /\ waitSem' # waitSem
    /\ pat' = pat
    /\ posts' = posts

\* C27: with the reconcile toggle off the Director never changes value(W);
\* with it on, the Director changes W only on a monitor tick on which it
\* observed N - insideWaitingRoom - value(W) > 0, and then sets W to the
\* N - insideWaitingRoom it read on that tick.
C27_ReconcileOnly ==
    [][ DirectorChangesW =>
          /\ config.reconcile
          /\ dir.pc = "loop"
          /\ config.N - shared.currentInWaitingRoom - waitSem > 0
          /\ waitSem' = config.N - shared.currentInWaitingRoom ]_vars

\* C27 witness: the toggle is on and W + insideWaitingRoom = N although a
\* Patient holds a seat it has not counted yet: the monitor has reset W
C27_Witness ==
    /\ config.reconcile
    /\ SemW \in ipc
    /\ waitSem + shared.currentInWaitingRoom = config.N
    /\ \E p \in Patients : pat[p].pc \in {"acq", "count"} /\ pat[p].held > 0
    /\ \A d \in Desks : desk[d].pc # "post" /\ desk[d].left = 0

\* ------------------------------------------------------- temporary leave

\* C28: every temporary-leave request raised on a Specialist that is not
\* stopped is eventually cleared by that Specialist after it has taken the
\* leave sleep, whatever point of its loop the signal arrives at (before the
\* receive call, while blocked in it, or during an exam); the flag is never
\* cleared without a leave having been taken.
C28_LeaveTakenThenCleared ==
    /\ \A t \in SpecTypes :
         (spec[t].paused /\ ~spec[t].stop) ~> (~spec[t].paused \/ spec[t].stop)
    /\ [][ \A t \in SpecTypes :
             (spec[t].paused /\ ~spec'[t].paused) => spec[t].pc = "leaveclear" ]_vars

\* ------------------------------------------------------ PatientGenerator stop

\* C29: after stop is raised on the PatientFactory it spawns no further
\* Patient, sends stop to every Patient it still tracks, and terminates only
\* after all of them have terminated; and the PatientFactory does eventually
\* terminate by itself, including when some Patient is blocked acquiring W.
C29_GeneratorStops ==
    /\ [][ gen.stop => gen'.spawned = gen.spawned ]_vars
    /\ [][ (gen.pc # "exited" /\ gen'.pc = "exited") =>
             \A p \in Patients : ~Alive(pat[p].pc) ]_vars
    /\ gen.stop ~> (gen.pc = "exited")

\* ------------------------------------------------------ return of the Director

\* a shutdown trigger has occurred: the Director was signalled (interrupt or
\* evacuation), or the configured duration has elapsed
ShutdownTriggered ==
    \/ dir.signalled
    \/ dir.stopRequested
    \/ dir.pc # "boot" /\ DurationReached(config.duration, now)

\* C30: after any shutdown trigger (interrupt, evacuation signal, or duration
\* reached) Director::run eventually returns: every join of an actor is
\* bounded by force-termination, so no actor that misses or ignores its stop,
\* and no actor that died holding a resource, can block the Director forever.
C30_DirectorReturns == ShutdownTriggered ~> (dir.pc = "done")

\* ------------------------------------------------------------ stop of a worker

\* a worker in its send loop finds the channel full and the only reader of
\* that channel gone: while (!sent) retries on EAGAIN without looking at stopFlag
DeskRetriesForever(d) ==
    /\ desk[d].pc = "send"
    /\ SendResult(TriQ, triageQueue) = "again"
    /\ ~Alive(tri.pc)

TriRetriesForever ==
    /\ tri.pc = "send"
    /\ SendResult(SpecQ(TargetQueue(tri.ev)), specQueue[TargetQueue(tri.ev)]) = "again"
    /\ ~Alive(spec[TargetQueue(tri.ev)].pc)

\* C31: once the stop flag of Registration, Triage or a Specialist has been
\* raised, that actor dequeues no further record from its input channel, and
\* it is never left where only force-termination ends it (retrying a send
\* that cannot succeed), whatever point of its loop the stop arrives at.
C31_StoppedTakesNoRecord ==
    [][ /\ \A d \in Desks :
             /\ desk[d].stop => ~(desk[d].pc = "rcv" /\ desk'[d].pc = "declen")
             /\ desk'[d].stop => ~DeskRetriesForever(d)'
        /\ tri.stop => ~(tri.pc = "rcv" /\ tri'.pc = "decide")
        /\ tri'.stop => ~TriRetriesForever'
        /\ \A t \in SpecTypes :
             spec[t].stop => ~(spec[t].pc = "rcv" /\ spec'[t].pc = "exam") ]_vars

\* ------------------------------------------------------------- patient ids

\* ids the generator has handed out: a child was forked with that id
HandedOut == {p \in Patients : pat[p].pc # "none"}

\* C32: patient ids handed out by the PatientFactory are strictly increasing
\* and never reused: the n-th successfully spawned Patient gets id n, and a
\* failed spawn (a step of the generator that forks no child) consumes no id.
C32_IdsMonotone ==
    [][ /\ \A p \in Patients :
             (p \notin HandedOut /\ p \in HandedOut') =>
                 /\ p = Cardinality(HandedOut) + 1
                 /\ \A q \in HandedOut : q < p
        /\ \A p \in HandedOut :
             /\ p \in HandedOut'
             /\ pat'[p].isVip = pat[p].isVip
             /\ pat'[p].personsCount = pat[p].personsCount
        /\ HandedOut' = HandedOut => gen'.spawned = gen.spawned
        /\ gen'.spawned = Cardinality(HandedOut') ]_vars

\* C32 witness: a fork has failed and every id up to MaxPatients was handed
\* out, the last one to a Patient that is running
C32_Witness ==
    /\ \E i \in 1..Len(logger.inbox) :
         logger.inbox[i][Len(logger.inbox[i])] = ForkFailedText
    /\ HandedOut = Patients
    /\ Alive(pat[MaxPatients].pc)

\* ------------------------------------------------------ value of W

\* C33: value(W) never exceeds N in any reachable state: no sequence of
\* forwards, drops, send-homes, dispositions and reconciles posts more seats
\* than Patients have acquired.
C33_WNeverAboveN ==
    SemW \in ipc => waitSem <= config.N

\* ------------------------------------------------------------- admission

\* a Patient inside its acquisition loop that holds a part of its seats and
\* is blocked in waitSem.wait() for the next one
BlockedHolding(p) ==
    /\ pat[p].pc = "acq"
    /\ pat[p].held > 0
    /\ SemW \in ipc /\ waitSem = 0

RECURSIVE HeldBy(_)
HeldBy(S) == IF S = {} THEN 0
             ELSE LET p == CHOOSE x \in S : TRUE IN pat[p].held + HeldBy(S \ {p})

\* every seat of W is held by Patients that are each blocked waiting for one
\* more seat, and nobody is counted inside
AdmissionDeadlock ==
    /\ shared.currentInWaitingRoom = 0
    /\ HeldBy({p \in Patients : BlockedHolding(p)}) = config.N

\* C34: admission cannot deadlock: for N >= 2 there is no reachable state in
\* which every seat of W is held by Patients that are each blocked waiting
\* for one more seat while nobody is counted inside the waiting room; with
\* Registration running, every Patient that starts waiting to enter
\* eventually arrives.
C34_AdmissionNeverDeadlocks ==
    /\ [](config.N >= 2 => ~AdmissionDeadlock)
    /\ \A p \in Patients : (pat[p].pc = "acq") ~> Arrived(p)

\* ---------------------------------------------------- registration backlog

\* C35: in every reachable state 0 <= depth(RegChan) <= registrationQueueLen,
\* because a Patient increments the counter before it enqueues and
\* Registration decrements it after it dequeues; hence the provisioning input
\* max(depth(RegChan), registrationQueueLen) of a tick always equals the
\* registrationQueueLen of that tick.
C35_DepthWithinCounter ==
    [][ /\ RegQ \in ipc' => Len(regQueue') <= shared'.queueRegistrationLen
        /\ (dir.pc = "ticksect" /\ dir'.pc = "prov")
              => dir'.qlen = shared.queueRegistrationLen ]_vars

\* ------------------------------------------------- second desk, idle system

\* a Registration2 is spawned in this step
Reg2Spawned == Len(dir'.reg2History) > Len(dir.reg2History)

\* C36: for every accepted configuration, Reg2 is never spawned on a
\* provisioning tick on which RegChan is empty and registrationQueueLen = 0
\* (regLen = 0).
C36_NoSpawnWhenIdle ==
    [][ (dir.pc = "prov" /\ dir.qlen = 0) => ~Reg2Spawned ]_vars

\* the backlog a tick would see now
RegLenNow == RegLen(Len(regQueue), shared.queueRegistrationLen)

\* C37: for every accepted configuration, an open Reg2 is eventually closed
\* by the provisioning loop once RegChan has drained and regLen stays 0 on
\* every later tick.
C37_Reg2ClosedWhenDrained ==
    (shared.reg2Active = 1 /\ RegLenNow = 0) ~> (shared.reg2Active = 0 \/ RegLenNow > 0)

\* ------------------------------------------------ records held at exit

\* Exits: both desks with the provisioning of Registration2, Triage routing
\* (Green, specialist 0) or sending home, the Specialists, and the shutdown
\* on a signal; patients come alone, reconcile is off, nothing fails at start-up.
InitExit == InitWith(Configs({1}, {FALSE}))

NextExit ==
    \/ DirBootstrap \/ DirSignal \/ DirTick \/ DirStop
    \/ DirOpenReg2 \/ DirCloseReg2 \/ DirCloseWait \/ DirProvNone
    \/ DirBroadcast \/ DirJoinReg1 \/ DirJoinReg2 \/ DirJoinTriage
    \/ DirJoinSpecialist \/ DirJoinGenerator \/ DirSendEnd \/ DirJoinLogger
    \/ destroyIpc
    \/ GenSpawn({FALSE}, {0}) \/ GenStop \/ GenExit
    \/ \E p \in Patients :
         PatientAcquire(p) \/ PatientSemGone(p) \/ PatientArrive(p) \/ PatientSend(p)
    \/ \E d \in Desks :
         \/ DeskBoot(d) \/ DeskReceive(d) \/ DeskInterrupted(d)
         \/ DeskDecLen(d) \/ DeskSend(d) \/ DeskRelease(d) \/ DeskPost(d)
    \/ TriReceive \/ TriInterrupted \/ TriSendHome \/ TriRoute({Green}, {0}) \/ TriSend
    \/ \E t \in SpecTypes : SpecReceive(t) \/ SpecInterrupted(t) \/ SpecHandle(t, {"outcomeHome"})

SpecExit == InitExit /\ [][NextExit]_vars

\* an actor leaves its loop by itself: the loop condition or a failed msgrcv
LeavesLoop(before, after) == Alive(before) /\ after = "exited"

\* the step that ends a record at a desk: the last waitSem.post() of
\* releaseSlots, after the forward or the drop
DeskRecordDone(d) == desk[d].pc = "post" /\ desk[d].left = 1

\* Registration, Triage and the Specialists leave their loops with no record
\* in hand, and give a record up only in the step that ends it
ExitsHoldNothing ==
    /\ \A d \in Desks :
         /\ LeavesLoop(desk[d].pc, desk'[d].pc) => desk'[d].ev = NoEv
         /\ (desk[d].ev # NoEv /\ desk'[d].ev = NoEv) =>
                /\ DeskRecordDone(d)
                /\ posts'[desk[d].ev.patientId] = desk[d].ev.personsCount \/ SemW \notin ipc
    /\ LeavesLoop(tri.pc, tri'.pc) => tri'.ev = NoEv
    /\ (tri.ev # NoEv /\ tri'.ev = NoEv) =>
           \/ tri.pc = "decide" /\ hist' = Logged(tri.ev.patientId, "home")
           \/ tri.pc = "send"
    /\ \A t \in SpecTypes :
         /\ LeavesLoop(spec[t].pc, spec'[t].pc) => spec'[t].ev = NoEv
         /\ (spec[t].ev # NoEv /\ spec'[t].ev = NoEv) =>
                hist' = Logged(spec[t].ev.patientId, "handled")

\* the provisioning loop's close has returned from waitWithTimeout
Reg2Closed == dir.pc = "closewait" /\ dir'.pc = "loop"

\* C38: a record that Registration, Triage or a Specialist has dequeued is
\* processed to the end of its step before the actor leaves on stop, and the
\* Registration2 that the provisioning loop closes holds no dequeued record
\* when the close returns.
C38_Original ==
    [][ /\ ExitsHoldNothing
        /\ Reg2Closed => desk'[dir.reg2Pid].ev = NoEv ]_vars

\* C38 (amended): an actor that leaves its loop by itself holds no record,
\* and a record is given up only by the step that ends it; the Registration2
\* closed by the provisioning loop holds no record if it had left by itself
\* when waitWithTimeout reaped it (a Registration2 still running after the
\* wait is killed with what it holds).
C38_VoluntaryExitHoldsNothing ==
    [][ /\ ExitsHoldNothing
        /\ (Reg2Closed /\ desk[dir.reg2Pid].pc = "exited") => desk'[dir.reg2Pid].ev = NoEv ]_vars

\* Registration2 alone has served a patient (Registration1 has not started),
\* was stopped by the close and has left by itself
C38_Witness ==
    /\ dir.pc = "closewait"
    /\ desk[1].pc = "boot"
    /\ desk[dir.reg2Pid].pc = "exited" /\ desk[dir.reg2Pid].stop /\ desk[dir.reg2Pid].ev = NoEv
    /\ \E p \in Patients : posts[p] = pat[p].personsCount /\ posts[p] > 0

====
